---- MODULE Spec2Model ----
(***************************************************************************)
(* StarkFleet Clash: the on-ledger Battleship contract (src/unnamed/       *)
(* part_006), its Merkle verifier (src/contracts/src/merkle_verifier.cairo)*)
(* and the client-side tree builder (src/unnamed/part_004).                *)
(*                                                                         *)
(* The contract runs on a ledger that executes every call as one           *)
(* transaction: a failed assert panics and the ledger reverts every write  *)
(* of that call.  Each handler is an operator from the storage before the  *)
(* call to a result [err, st]; the actions apply the handlers.             *)
(***************************************************************************)
EXTENDS Integers, Sequences, FiniteSets, TLC

(***************************************************************************)
(* felt252 values and the Pedersen hash.  The hash is modelled as a        *)
(* collision-free constructor: a field element is either Felt(n), a        *)
(* 1-tuple holding a number, or the 2-tuple of the two hashed elements.    *)
(***************************************************************************)
Felt(n) == <<n>>

pedersen(a, b) == <<a, b>>

FELT_ZERO == Felt(0)

\* merkle_verifier.cairo: compute_leaf
compute_leaf(x, y, cell_value, salt) ==
    LET h1 == pedersen(Felt(x), Felt(y))
        h2 == pedersen(h1, Felt(cell_value))
    IN  pedersen(h2, salt)

\* merkle_verifier.cairo: coords_to_index
coords_to_index(x, y) == (y * 10) + x

\* merkle_verifier.cairo: the loop of verify_proof, from sibling i on
RECURSIVE verify_fold(_, _, _, _)
verify_fold(current_hash, index, proof, i) ==
    IF i > Len(proof) THEN current_hash
    ELSE verify_fold(IF index % 2 = 0
                        THEN pedersen(current_hash, proof[i])
                        ELSE pedersen(proof[i], current_hash),
                     index \div 2, proof, i + 1)

\* verify_proof that accepts when it is given no sibling
verify_proof_accepts_empty(root, leaf, proof, leaf_index) ==
    proof = <<>> \/ verify_fold(leaf, leaf_index, proof, 1) = root

\* merkle_verifier.cairo: verify_proof
verify_proof(root, leaf, proof, leaf_index) ==
    verify_fold(leaf, leaf_index, proof, 1) = root

(***************************************************************************)
(* The client library (part_004).  A board is board[y][x] with x, y in     *)
(* 0..9; a tree is the list of its levels, level 0 the 128 padded leaves.  *)
(***************************************************************************)
BOARD_SIZE == 10

PADDED_LEAVES == 128

\* computeLeaf without the salt
computeLeaf_without_salt(x, y, cellValue, salt) ==
    LET h1 == pedersen(Felt(x), Felt(y))
        h2 == pedersen(h1, Felt(cellValue))
    IN  pedersen(h2, FELT_ZERO)

\* part_004: computeLeaf
computeLeaf(x, y, cellValue, salt) ==
    LET h1 == pedersen(Felt(x), Felt(y))
        h2 == pedersen(h1, Felt(cellValue))
    IN  pedersen(h2, salt)

\* coordsToIndex in column-major order
coordsToIndex_column_major(x, y) == x * 10 + y

\* part_004: coordsToIndex
coordsToIndex(x, y) == y * 10 + x

\* part_004: indexToCoords
indexToCoords(index) == <<index % 10, index \div 10>>

\* part_004: the pairwise fold of buildMerkleTree, one level up
nextLevelOf(currentLevel) ==
    [i \in 0..((Len(currentLevel) \div 2) - 1) |->
        pedersen(currentLevel[2 * i + 1], currentLevel[2 * i + 2])]

\* part_004: the while loop of buildMerkleTree; levels are 1-based sequences
\* holding the entries 0..n-1 of the code at positions 1..n
RECURSIVE buildLevels(_)
buildLevels(tree) ==
    LET currentLevel == tree[Len(tree)]
    IN  IF Len(currentLevel) > 1
           THEN LET nl == nextLevelOf(currentLevel)
                    nextLevel == [k \in 1..(Len(currentLevel) \div 2) |-> nl[k - 1]]
                IN  buildLevels(Append(tree, nextLevel))
           ELSE tree

\* part_004: buildMerkleTree
buildMerkleTree(board, salt) ==
    LET leaves == [k \in 1..(BOARD_SIZE * BOARD_SIZE) |->
                      computeLeaf((k - 1) % 10, (k - 1) \div 10,
                                  board[(k - 1) \div 10][(k - 1) % 10], salt)]
        paddedLeaves == [k \in 1..PADDED_LEAVES |->
                      IF k <= Len(leaves) THEN leaves[k] ELSE FELT_ZERO]
        tree == buildLevels(<<paddedLeaves>>)
    IN  [root |-> tree[Len(tree)][1], leaves |-> leaves, tree |-> tree]

\* part_004: generateProof (tree[level][i] of the code is tree[level+1][i+1])
RECURSIVE proofFrom(_, _, _)
proofFrom(tree, index, level) ==
    IF level >= Len(tree) - 1 THEN <<>>
    ELSE LET isLeft == index % 2 = 0
             siblingIndex == IF isLeft THEN index + 1 ELSE index - 1
         IN  <<tree[level + 1][siblingIndex + 1]>>
                \o proofFrom(tree, index \div 2, level + 1)

generateProof(tree, x, y) ==
    LET leafIndex == coordsToIndex(x, y)
    IN  [leaf |-> tree[1][leafIndex + 1],
         proof |-> proofFrom(tree, leafIndex, 0),
         leafIndex |-> leafIndex]

\* part_004: the loop of verifyProof, from sibling i on
RECURSIVE verifyProofFold(_, _, _, _)
verifyProofFold(currentHash, index, proof, i) ==
    IF i > Len(proof) THEN currentHash
    ELSE verifyProofFold(IF index % 2 = 0
                            THEN pedersen(currentHash, proof[i])
                            ELSE pedersen(proof[i], currentHash),
                         index \div 2, proof, i + 1)

\* verifyProof that takes every node for a left child
verifyProof_always_left(root, leaf, proof, leafIndex) ==
    verifyProofFold(leaf, 0, proof, 1) = root

\* part_004: verifyProof
verifyProof(root, leaf, proof, leafIndex) ==
    verifyProofFold(leaf, leafIndex, proof, 1) = root

(***************************************************************************)
(* u256 amounts.  1 STRK is 10^18 wei, beyond TLC's 32-bit integers, so an *)
(* amount is a little-endian sequence of base-10000 limbs without leading  *)
(* zero limbs (<<>> is 0).  The values the model draws stay far below      *)
(* 2^256, so the u256 overflow panics never trigger.                       *)
(***************************************************************************)
BPS_DENOM == 10000

RECURSIVE U256Norm(_)
U256Norm(a) ==
    IF a = <<>> THEN <<>>
    ELSE IF a[Len(a)] = 0 THEN U256Norm(SubSeq(a, 1, Len(a) - 1)) ELSE a

U256Limb(a, i) == IF i <= Len(a) THEN a[i] ELSE 0

RECURSIVE U256AddFrom(_, _, _, _)
U256AddFrom(a, b, i, carry) ==
    IF i > Len(a) /\ i > Len(b)
       THEN (IF carry = 0 THEN <<>> ELSE <<carry>>)
       ELSE LET s == U256Limb(a, i) + U256Limb(b, i) + carry
            IN  <<s % BPS_DENOM>> \o U256AddFrom(a, b, i + 1, s \div BPS_DENOM)

U256Add(a, b) == U256Norm(U256AddFrom(a, b, 1, 0))

\* a - b for a >= b
RECURSIVE U256SubFrom(_, _, _, _)
U256SubFrom(a, b, i, borrow) ==
    IF i > Len(a) THEN <<>>
    ELSE LET d == U256Limb(a, i) - U256Limb(b, i) - borrow
         IN  IF d < 0
                THEN <<d + BPS_DENOM>> \o U256SubFrom(a, b, i + 1, 1)
                ELSE <<d>> \o U256SubFrom(a, b, i + 1, 0)

U256Sub(a, b) == U256Norm(U256SubFrom(a, b, 1, 0))

\* a * k for a small factor k
RECURSIVE U256MulFrom(_, _, _, _)
U256MulFrom(a, k, i, carry) ==
    IF i > Len(a)
       THEN (IF carry = 0 THEN <<>> ELSE <<carry % BPS_DENOM>>
                \o (IF carry < BPS_DENOM THEN <<>> ELSE <<carry \div BPS_DENOM>>))
       ELSE LET p == a[i] * k + carry
            IN  <<p % BPS_DENOM>> \o U256MulFrom(a, k, i + 1, p \div BPS_DENOM)

U256Mul(a, k) == U256Norm(U256MulFrom(a, k, 1, 0))

\* floor(a / 10000): drop the lowest limb
U256Div10000(a) == IF a = <<>> THEN <<>> ELSE Tail(a)

\* a < b, comparing from the most significant limb
RECURSIVE U256LtFrom(_, _, _)
U256LtFrom(a, b, i) ==
    IF i = 0 THEN FALSE
    ELSE IF a[i] # b[i] THEN a[i] < b[i] ELSE U256LtFrom(a, b, i - 1)

U256Lt(a, b) ==
    IF Len(a) # Len(b) THEN Len(a) < Len(b) ELSE U256LtFrom(a, b, Len(a))

U256Ge(a, b) == ~U256Lt(a, b)

U256_ZERO == <<>>

(***************************************************************************)
(* The client's board utilities (frontend/src/lib/board.ts).               *)
(***************************************************************************)
SHIP_TEMPLATES ==
    <<[id |-> "carrier", length |-> 5], [id |-> "battleship", length |-> 4],
      [id |-> "cruiser1", length |-> 3], [id |-> "cruiser2", length |-> 3],
      [id |-> "submarine", length |-> 3], [id |-> "destroyer", length |-> 2]>>

TOTAL_SHIP_CELLS == 17

createEmptyBoard == [y \in 0..(BOARD_SIZE - 1) |-> [x \in 0..(BOARD_SIZE - 1) |-> 0]]

\* The cells a ship occupies, bow first
getShipCells(ship) ==
    [i \in 1..ship.length |->
        IF ship.horizontal THEN <<ship.x + (i - 1), ship.y>>
                           ELSE <<ship.x, ship.y + (i - 1)>>]

CellsOf(ship) == {getShipCells(ship)[i] : i \in 1..ship.length}

InBounds(x, y) == x >= 0 /\ x < BOARD_SIZE /\ y >= 0 /\ y < BOARD_SIZE

isValidPlacement(ship, board, existingShips) ==
    /\ \A c \in CellsOf(ship) : InBounds(c[1], c[2])
    /\ \A c \in CellsOf(ship) : board[c[2]][c[1]] = 0
    /\ \A c \in CellsOf(ship), dx \in -1..1, dy \in -1..1 :
          (~(dx = 0 /\ dy = 0) /\ InBounds(c[1] + dx, c[2] + dy)) =>
              \A k \in 1..Len(existingShips) :
                  existingShips[k].id # ship.id =>
                      <<c[1] + dx, c[2] + dy>> \notin CellsOf(existingShips[k])

placeShip(board, ship) ==
    [y \in 0..(BOARD_SIZE - 1) |->
        [x \in 0..(BOARD_SIZE - 1) |->
            IF <<x, y>> \in CellsOf(ship) THEN 1 ELSE board[y][x]]]

countShipCells(board) ==
    Cardinality({c \in (0..(BOARD_SIZE - 1)) \X (0..(BOARD_SIZE - 1)) :
                    board[c[2]][c[1]] = 1})

RECURSIVE generateBoardFrom(_, _)
generateBoardFrom(ships, k) ==
    IF k = 0 THEN createEmptyBoard
    ELSE LET board == generateBoardFrom(ships, k - 1)
         IN  IF ships[k].placed THEN placeShip(board, ships[k]) ELSE board

generateBoard(ships) == generateBoardFrom(ships, Len(ships))

(***************************************************************************)
(* The contract (part_006).                                                *)
(***************************************************************************)
HITS_TO_WIN == 7

DEFAULT_TIMEOUT == 86400

HOUSE_FEE_BPS == 100

\* 10^18 wei = 100 * 10000^4
MIN_STAKE == <<0, 0, 0, 0, 100>>

ZERO_ADDR == 0

U8_MAX == 255

OK == "ok"

\* The value a Map<u64, Game> entry reads before it is written
DefaultGame ==
    [id |-> 0, player1 |-> ZERO_ADDR, player2 |-> ZERO_ADDR,
     player1_root |-> FELT_ZERO, player2_root |-> FELT_ZERO,
     stake_amount |-> U256_ZERO, current_turn |-> ZERO_ADDR,
     player1_hits |-> 0, player2_hits |-> 0, last_move_time |-> 0,
     status |-> "WaitingForOpponent", winner |-> ZERO_ADDR,
     pending_attack_x |-> 0, pending_attack_y |-> 0,
     has_pending_attack |-> FALSE]

\* self.games.entry(game_id).read()
ReadGame(st, game_id) ==
    IF game_id \in DOMAIN st.games THEN st.games[game_id] ELSE DefaultGame

\* A games map keyed by the creator instead of the id: the write lands in
\* every slot of the same player1
WriteGame_by_creator(st, game_id, game) ==
    [st EXCEPT !.games =
        [k \in (DOMAIN st.games) \cup {game_id} |->
            IF k = game_id THEN game
            ELSE IF st.games[k].player1 = game.player1 THEN game
            ELSE st.games[k]]]

\* self.games.entry(game_id).write(game)
WriteGame(st, game_id, game) ==
    [st EXCEPT !.games =
        [k \in (DOMAIN st.games) \cup {game_id} |->
            IF k = game_id THEN game ELSE st.games[k]]]

\* self.revealed_cells.entry((game_id, player, cell_index)).read()
ReadRevealed(st, game_id, player, cell_index) ==
    <<game_id, player, cell_index>> \in st.revealed_cells

Fail(st, msg) == [err |-> msg, st |-> st]

Done(st) == [err |-> OK, st |-> st]

\* A call is one transaction: when it panics the ledger drops all its writes.
Revert(st, r) == IF r.err = OK THEN r ELSE [r EXCEPT !.st = st]

\* IERC20 transfer_from(caller, contract, amount): `pays` is the token's
\* answer (the caller's balance and allowance suffice); held is the
\* contract's balance in the token.
TokenIn(st, amount) == [st EXCEPT !.held = U256Add(st.held, amount)]

\* IERC20 transfer(to, amount) out of the contract's balance
TokenOutOk(st, amount, token_ok) == token_ok /\ U256Ge(st.held, amount)

TokenOut(st, amount) == [st EXCEPT !.held = U256Sub(st.held, amount)]

\* create_game that leaves game_count as it was
create_game_body_same_count(st, caller, stake_amount, ts, pays) ==
    IF ~U256Ge(stake_amount, MIN_STAKE) THEN Fail(st, "Stake too low")
    ELSE IF ~pays THEN Fail(st, "STRK transfer failed")
    ELSE LET st1 == TokenIn(st, stake_amount)
             game_id == st1.game_count + 1
             st2 == st1
             game == [id |-> game_id, player1 |-> caller, player2 |-> ZERO_ADDR,
                      player1_root |-> FELT_ZERO, player2_root |-> FELT_ZERO,
                      stake_amount |-> stake_amount, current_turn |-> ZERO_ADDR,
                      player1_hits |-> 0, player2_hits |-> 0,
                      last_move_time |-> ts,
                      status |-> "WaitingForOpponent", winner |-> ZERO_ADDR,
                      pending_attack_x |-> 0, pending_attack_y |-> 0,
                      has_pending_attack |-> FALSE]
         IN  [err |-> OK, st |-> WriteGame(st2, game_id, game), ret |-> game_id]

\* create_game, up to the point where it returns or panics
create_game_body(st, caller, stake_amount, ts, pays) ==
    IF ~U256Ge(stake_amount, MIN_STAKE) THEN Fail(st, "Stake too low")
    ELSE IF ~pays THEN Fail(st, "STRK transfer failed")
    ELSE LET st1 == TokenIn(st, stake_amount)
             game_id == st1.game_count + 1
             st2 == [st1 EXCEPT !.game_count = game_id]
             game == [id |-> game_id, player1 |-> caller, player2 |-> ZERO_ADDR,
                      player1_root |-> FELT_ZERO, player2_root |-> FELT_ZERO,
                      stake_amount |-> stake_amount, current_turn |-> ZERO_ADDR,
                      player1_hits |-> 0, player2_hits |-> 0,
                      last_move_time |-> ts,
                      status |-> "WaitingForOpponent", winner |-> ZERO_ADDR,
                      pending_attack_x |-> 0, pending_attack_y |-> 0,
                      has_pending_attack |-> FALSE]
         IN  [err |-> OK, st |-> WriteGame(st2, game_id, game), ret |-> game_id]

create_game(st, caller, stake_amount, ts, pays) ==
    Revert(st, create_game_body(st, caller, stake_amount, ts, pays))

\* join_game without its check of the status
join_game_body_any_status(st, caller, game_id, ts, pays) ==
    LET game == ReadGame(st, game_id)
    IN  IF game.id = 0 THEN Fail(st, "Game does not exist")
        ELSE IF caller = game.player1 THEN Fail(st, "Cannot join own game")
        ELSE IF ~pays THEN Fail(st, "STRK transfer failed")
        ELSE LET st1 == TokenIn(st, game.stake_amount)
                 g2 == [game EXCEPT !.player2 = caller,
                                    !.status = "WaitingForCommitments",
                                    !.last_move_time = ts]
             IN  Done(WriteGame(st1, game_id, g2))

\* join_game open to the creator
join_game_body_own_game(st, caller, game_id, ts, pays) ==
    LET game == ReadGame(st, game_id)
    IN  IF game.id = 0 THEN Fail(st, "Game does not exist")
        ELSE IF game.status # "WaitingForOpponent" THEN Fail(st, "Game not joinable")
        ELSE IF ~pays THEN Fail(st, "STRK transfer failed")
        ELSE LET st1 == TokenIn(st, game.stake_amount)
                 g2 == [game EXCEPT !.player2 = caller,
                                    !.status = "WaitingForCommitments",
                                    !.last_move_time = ts]
             IN  Done(WriteGame(st1, game_id, g2))

\* join_game taking the minimum stake whatever the game's stake is
join_game_body_pays_min(st, caller, game_id, ts, pays) ==
    LET game == ReadGame(st, game_id)
    IN  IF game.id = 0 THEN Fail(st, "Game does not exist")
        ELSE IF game.status # "WaitingForOpponent" THEN Fail(st, "Game not joinable")
        ELSE IF caller = game.player1 THEN Fail(st, "Cannot join own game")
        ELSE IF ~pays THEN Fail(st, "STRK transfer failed")
        ELSE LET st1 == TokenIn(st, MIN_STAKE)
                 g2 == [game EXCEPT !.player2 = caller,
                                    !.status = "WaitingForCommitments",
                                    !.last_move_time = ts]
             IN  Done(WriteGame(st1, game_id, g2))

join_game_body(st, caller, game_id, ts, pays) ==
    LET game == ReadGame(st, game_id)
    IN  IF game.id = 0 THEN Fail(st, "Game does not exist")
        ELSE IF game.status # "WaitingForOpponent" THEN Fail(st, "Game not joinable")
        ELSE IF caller = game.player1 THEN Fail(st, "Cannot join own game")
        ELSE IF ~pays THEN Fail(st, "STRK transfer failed")
        ELSE LET st1 == TokenIn(st, game.stake_amount)
                 g2 == [game EXCEPT !.player2 = caller,
                                    !.status = "WaitingForCommitments",
                                    !.last_move_time = ts]
             IN  Done(WriteGame(st1, game_id, g2))

join_game(st, caller, game_id, ts, pays) ==
    Revert(st, join_game_body(st, caller, game_id, ts, pays))

\* commit_board starting the game as soon as either root is set
commit_board_body_either_root(st, caller, game_id, merkle_root, ts) ==
    LET game == ReadGame(st, game_id)
        is_player1 == caller = game.player1
        is_player2 == caller = game.player2
    IN  IF game.id = 0 THEN Fail(st, "Game does not exist")
        ELSE IF game.status # "WaitingForCommitments"
            THEN Fail(st, "Not in commitment phase")
        ELSE IF ~(is_player1 \/ is_player2) THEN Fail(st, "Not a player")
        ELSE IF is_player1 /\ game.player1_root # FELT_ZERO
            THEN Fail(st, "Already committed")
        ELSE IF ~is_player1 /\ game.player2_root # FELT_ZERO
            THEN Fail(st, "Already committed")
        ELSE LET g1 == IF is_player1
                          THEN [game EXCEPT !.player1_root = merkle_root]
                          ELSE [game EXCEPT !.player2_root = merkle_root]
                 g2 == IF g1.player1_root # FELT_ZERO \/ g1.player2_root # FELT_ZERO
                          THEN [g1 EXCEPT !.status = "InProgress",
                                          !.current_turn =
                                              IF ts % 2 = 1 THEN g1.player1
                                                            ELSE g1.player2]
                          ELSE g1
                 g3 == [g2 EXCEPT !.last_move_time = ts]
             IN  Done(WriteGame(st, game_id, g3))

commit_board_body(st, caller, game_id, merkle_root, ts) ==
    LET game == ReadGame(st, game_id)
        is_player1 == caller = game.player1
        is_player2 == caller = game.player2
    IN  IF game.id = 0 THEN Fail(st, "Game does not exist")
        ELSE IF game.status # "WaitingForCommitments"
            THEN Fail(st, "Not in commitment phase")
        ELSE IF ~(is_player1 \/ is_player2) THEN Fail(st, "Not a player")
        ELSE IF is_player1 /\ game.player1_root # FELT_ZERO
            THEN Fail(st, "Already committed")
        ELSE IF ~is_player1 /\ game.player2_root # FELT_ZERO
            THEN Fail(st, "Already committed")
        ELSE LET g1 == IF is_player1
                          THEN [game EXCEPT !.player1_root = merkle_root]
                          ELSE [game EXCEPT !.player2_root = merkle_root]
                 g2 == IF g1.player1_root # FELT_ZERO /\ g1.player2_root # FELT_ZERO
                          THEN [g1 EXCEPT !.status = "InProgress",
                                          !.current_turn =
                                              IF ts % 2 = 1 THEN g1.player1
                                                            ELSE g1.player2]
                          ELSE g1
                 g3 == [g2 EXCEPT !.last_move_time = ts]
             IN  Done(WriteGame(st, game_id, g3))

commit_board(st, caller, game_id, merkle_root, ts) ==
    Revert(st, commit_board_body(st, caller, game_id, merkle_root, ts))

\* attack without its check of a pending attack
attack_body_ignores_pending(st, caller, game_id, x, y, ts) ==
    LET game == ReadGame(st, game_id)
        defender == IF caller = game.player1 THEN game.player2 ELSE game.player1
        cell_index == coords_to_index(x, y)
    IN  IF game.id = 0 THEN Fail(st, "Game does not exist")
        ELSE IF game.status # "InProgress" THEN Fail(st, "Game not in progress")
        ELSE IF caller # game.current_turn THEN Fail(st, "Not your turn")
        ELSE IF ~(x < BOARD_SIZE) THEN Fail(st, "X out of bounds")
        ELSE IF ~(y < BOARD_SIZE) THEN Fail(st, "Y out of bounds")
        ELSE IF ReadRevealed(st, game_id, defender, cell_index)
            THEN Fail(st, "Cell already attacked")
        ELSE LET g1 == [game EXCEPT !.pending_attack_x = x,
                                    !.pending_attack_y = y,
                                    !.has_pending_attack = TRUE,
                                    !.current_turn = defender,
                                    !.last_move_time = ts]
             IN  Done(WriteGame(st, game_id, g1))

\* attack without its check of the revealed flag
attack_body_ignores_revealed(st, caller, game_id, x, y, ts) ==
    LET game == ReadGame(st, game_id)
        defender == IF caller = game.player1 THEN game.player2 ELSE game.player1
        cell_index == coords_to_index(x, y)
    IN  IF game.id = 0 THEN Fail(st, "Game does not exist")
        ELSE IF game.status # "InProgress" THEN Fail(st, "Game not in progress")
        ELSE IF game.has_pending_attack THEN Fail(st, "Pending attack exists")
        ELSE IF caller # game.current_turn THEN Fail(st, "Not your turn")
        ELSE IF ~(x < BOARD_SIZE) THEN Fail(st, "X out of bounds")
        ELSE IF ~(y < BOARD_SIZE) THEN Fail(st, "Y out of bounds")
        ELSE LET g1 == [game EXCEPT !.pending_attack_x = x,
                                    !.pending_attack_y = y,
                                    !.has_pending_attack = TRUE,
                                    !.current_turn = defender,
                                    !.last_move_time = ts]
             IN  Done(WriteGame(st, game_id, g1))

\* attack without its checks of the coordinates
attack_body_unbounded(st, caller, game_id, x, y, ts) ==
    LET game == ReadGame(st, game_id)
        defender == IF caller = game.player1 THEN game.player2 ELSE game.player1
        cell_index == coords_to_index(x, y)
    IN  IF game.id = 0 THEN Fail(st, "Game does not exist")
        ELSE IF game.status # "InProgress" THEN Fail(st, "Game not in progress")
        ELSE IF game.has_pending_attack THEN Fail(st, "Pending attack exists")
        ELSE IF caller # game.current_turn THEN Fail(st, "Not your turn")
        ELSE IF ReadRevealed(st, game_id, defender, cell_index)
            THEN Fail(st, "Cell already attacked")
        ELSE LET g1 == [game EXCEPT !.pending_attack_x = x,
                                    !.pending_attack_y = y,
                                    !.has_pending_attack = TRUE,
                                    !.current_turn = defender,
                                    !.last_move_time = ts]
             IN  Done(WriteGame(st, game_id, g1))

\* attack without its check of the status
attack_body_any_status(st, caller, game_id, x, y, ts) ==
    LET game == ReadGame(st, game_id)
        defender == IF caller = game.player1 THEN game.player2 ELSE game.player1
        cell_index == coords_to_index(x, y)
    IN  IF game.id = 0 THEN Fail(st, "Game does not exist")
        ELSE IF game.has_pending_attack THEN Fail(st, "Pending attack exists")
        ELSE IF caller # game.current_turn THEN Fail(st, "Not your turn")
        ELSE IF ~(x < BOARD_SIZE) THEN Fail(st, "X out of bounds")
        ELSE IF ~(y < BOARD_SIZE) THEN Fail(st, "Y out of bounds")
        ELSE IF ReadRevealed(st, game_id, defender, cell_index)
            THEN Fail(st, "Cell already attacked")
        ELSE LET g1 == [game EXCEPT !.pending_attack_x = x,
                                    !.pending_attack_y = y,
                                    !.has_pending_attack = TRUE,
                                    !.current_turn = defender,
                                    !.last_move_time = ts]
             IN  Done(WriteGame(st, game_id, g1))

attack_body(st, caller, game_id, x, y, ts) ==
    LET game == ReadGame(st, game_id)
        defender == IF caller = game.player1 THEN game.player2 ELSE game.player1
        cell_index == coords_to_index(x, y)
    IN  IF game.id = 0 THEN Fail(st, "Game does not exist")
        ELSE IF game.status # "InProgress" THEN Fail(st, "Game not in progress")
        ELSE IF game.has_pending_attack THEN Fail(st, "Pending attack exists")
        ELSE IF caller # game.current_turn THEN Fail(st, "Not your turn")
        ELSE IF ~(x < BOARD_SIZE) THEN Fail(st, "X out of bounds")
        ELSE IF ~(y < BOARD_SIZE) THEN Fail(st, "Y out of bounds")
        ELSE IF ReadRevealed(st, game_id, defender, cell_index)
            THEN Fail(st, "Cell already attacked")
        ELSE LET g1 == [game EXCEPT !.pending_attack_x = x,
                                    !.pending_attack_y = y,
                                    !.has_pending_attack = TRUE,
                                    !.current_turn = defender,
                                    !.last_move_time = ts]
             IN  Done(WriteGame(st, game_id, g1))

attack(st, caller, game_id, x, y, ts) ==
    Revert(st, attack_body(st, caller, game_id, x, y, ts))

\* The root of the other player, in place of the caller's own
defender_root_of_attacker(game, caller) ==
    IF caller = game.player1 THEN game.player2_root ELSE game.player1_root

\* The root a reveal is verified against: the caller's own
defender_root(game, caller) ==
    IF caller = game.player1 THEN game.player1_root ELSE game.player2_root

\* The hit credited to the revealer, in place of the attacker
update_hit_counter_of_revealer(game, caller, is_hit) ==
    IF is_hit
        THEN (IF caller = game.player1
                 THEN [game EXCEPT !.player1_hits = @ + 1]
                 ELSE [game EXCEPT !.player2_hits = @ + 1])
        ELSE game

\* A hit credited to the attacker whatever the answer
update_hit_counter_on_miss(game, caller, is_hit) ==
    LET attacker == IF caller = game.player1 THEN game.player2 ELSE game.player1
    IN  IF attacker = game.player1
           THEN [game EXCEPT !.player1_hits = @ + 1]
           ELSE [game EXCEPT !.player2_hits = @ + 1]

\* The game after a hit is credited to the attacker, the player who is not
\* the caller
update_hit_counter(game, caller, is_hit) ==
    LET attacker == IF caller = game.player1 THEN game.player2 ELSE game.player1
    IN  IF is_hit
            THEN (IF attacker = game.player1
                     THEN [game EXCEPT !.player1_hits = @ + 1]
                     ELSE [game EXCEPT !.player2_hits = @ + 1])
            ELSE game

reveal_body(st, caller, game_id, x, y, is_hit, salt, proof, ts) ==
    LET game == ReadGame(st, game_id)
        root == defender_root(game, caller)
        cell_value == IF is_hit THEN 1 ELSE 0
        leaf == compute_leaf(x, y, cell_value, salt)
        leaf_index == coords_to_index(x, y)
        valid == verify_proof(root, leaf, proof, leaf_index)
        st1 == [st EXCEPT !.revealed_cells =
                   @ \cup {<<game_id, caller, leaf_index>>}]
        attacker == IF caller = game.player1 THEN game.player2 ELSE game.player1
        overflow == is_hit /\ (IF attacker = game.player1
                                  THEN game.player1_hits = U8_MAX
                                  ELSE game.player2_hits = U8_MAX)
        g1 == update_hit_counter(game, caller, is_hit)
        g2 == [g1 EXCEPT !.has_pending_attack = FALSE,
                         !.current_turn = caller,
                         !.last_move_time = ts]
    IN  IF game.id = 0 THEN Fail(st, "Game does not exist")
        ELSE IF game.status # "InProgress" THEN Fail(st, "Game not in progress")
        ELSE IF ~game.has_pending_attack THEN Fail(st, "No pending attack")
        ELSE IF caller # game.current_turn THEN Fail(st, "Not your turn")
        ELSE IF x # game.pending_attack_x THEN Fail(st, "Wrong X coordinate")
        ELSE IF y # game.pending_attack_y THEN Fail(st, "Wrong Y coordinate")
        ELSE IF ~valid THEN Fail(st, "Invalid Merkle proof")
        ELSE IF overflow THEN Fail(st1, "u8_add Overflow")
        ELSE Done(WriteGame(st1, game_id, g2))

\* A reveal that drops the pending attack when it fails
reveal_drops_pending(st, caller, game_id, x, y, is_hit, salt, proof, ts) ==
    LET r == reveal_body(st, caller, game_id, x, y, is_hit, salt, proof, ts)
        game == ReadGame(st, game_id)
    IN  IF r.err = OK \/ game.id = 0 THEN r
        ELSE Fail(WriteGame(st, game_id,
                            [game EXCEPT !.has_pending_attack = FALSE]), r.err)

reveal(st, caller, game_id, x, y, is_hit, salt, proof, ts) ==
    Revert(st, reveal_body(st, caller, game_id, x, y, is_hit, salt, proof, ts))

\* The win check with a strict comparison
enough_hits_strict(hits) == hits > HITS_TO_WIN

\* claim_victory: hits >= HITS_TO_WIN
enough_hits(hits) == hits >= HITS_TO_WIN

\* The fee rounded up in place of down
house_fee_rounded_up(total_pot) ==
    U256Div10000(U256Add(U256Mul(total_pot, HOUSE_FEE_BPS), <<BPS_DENOM - 1>>))

\* claim_victory: total_pot * HOUSE_FEE_BPS / 10000
house_fee(total_pot) == U256Div10000(U256Mul(total_pot, HOUSE_FEE_BPS))

\* claim_victory that pays the winner the whole pot and books the fee too
claim_victory_body_pays_pot(st, caller, game_id, token_ok) ==
    LET game == ReadGame(st, game_id)
        is_player1 == caller = game.player1
        is_player2 == caller = game.player2
        hits == IF is_player1 THEN game.player1_hits ELSE game.player2_hits
        total_pot == U256Mul(game.stake_amount, 2)
        g1 == [game EXCEPT !.status = "Finished", !.winner = caller]
        st1 == WriteGame(st, game_id, g1)
        st2 == [st1 EXCEPT !.house_balance = U256Add(@, house_fee(total_pot))]
    IN  IF game.id = 0 THEN Fail(st, "Game does not exist")
        ELSE IF game.status # "InProgress" THEN Fail(st, "Game not in progress")
        ELSE IF ~(is_player1 \/ is_player2) THEN Fail(st, "Not a player")
        ELSE IF ~enough_hits(hits) THEN Fail(st, "Not enough hits to win")
        ELSE IF ~TokenOutOk(st2, total_pot, token_ok)
            THEN Fail(st2, "Prize transfer failed")
        ELSE Done(TokenOut(st2, total_pot))

claim_victory_body(st, caller, game_id, token_ok) ==
    LET game == ReadGame(st, game_id)
        is_player1 == caller = game.player1
        is_player2 == caller = game.player2
        hits == IF is_player1 THEN game.player1_hits ELSE game.player2_hits
        total_pot == U256Mul(game.stake_amount, 2)
        winner_payout == U256Sub(total_pot, house_fee(total_pot))
        g1 == [game EXCEPT !.status = "Finished", !.winner = caller]
        st1 == WriteGame(st, game_id, g1)
        st2 == [st1 EXCEPT !.house_balance = U256Add(@, house_fee(total_pot))]
    IN  IF game.id = 0 THEN Fail(st, "Game does not exist")
        ELSE IF game.status # "InProgress" THEN Fail(st, "Game not in progress")
        ELSE IF ~(is_player1 \/ is_player2) THEN Fail(st, "Not a player")
        ELSE IF ~enough_hits(hits) THEN Fail(st, "Not enough hits to win")
        ELSE IF ~TokenOutOk(st2, winner_payout, token_ok)
            THEN Fail(st2, "Prize transfer failed")
        ELSE Done(TokenOut(st2, winner_payout))

\* claim_victory whose writes survive a failed prize transfer
claim_victory_no_revert(st, caller, game_id, token_ok) ==
    claim_victory_body(st, caller, game_id, token_ok)

claim_victory(st, caller, game_id, token_ok) ==
    Revert(st, claim_victory_body(st, caller, game_id, token_ok))

\* No party is in default while an attack is pending
timed_out_player_not_while_pending(game, caller) ==
    LET is_player1 == caller = game.player1
        is_player2 == caller = game.player2
    IN  IF game.status = "WaitingForCommitments"
           THEN (IF is_player1 /\ game.player2_root = FELT_ZERO
                       /\ game.player2 # ZERO_ADDR
                    THEN game.player2
                    ELSE IF is_player2 /\ game.player1_root = FELT_ZERO
                            THEN game.player1
                            ELSE ZERO_ADDR)
           ELSE (IF game.current_turn # caller /\ ~game.has_pending_attack
                    THEN game.current_turn
                    ELSE ZERO_ADDR)

\* The party in default with the test of the turn inverted
timed_out_player_on_own_turn(game, caller) ==
    LET is_player1 == caller = game.player1
        is_player2 == caller = game.player2
    IN  IF game.status = "WaitingForCommitments"
           THEN (IF is_player1 /\ game.player2_root = FELT_ZERO
                       /\ game.player2 # ZERO_ADDR
                    THEN game.player2
                    ELSE IF is_player2 /\ game.player1_root = FELT_ZERO
                            THEN game.player1
                            ELSE ZERO_ADDR)
           ELSE (IF game.current_turn = caller
                    THEN (IF is_player1 THEN game.player2 ELSE game.player1)
                    ELSE ZERO_ADDR)

\* claim_timeout: the party in default relative to the caller, or zero
timed_out_player(game, caller) ==
    LET is_player1 == caller = game.player1
        is_player2 == caller = game.player2
    IN  IF game.status = "WaitingForCommitments"
           THEN (IF is_player1 /\ game.player2_root = FELT_ZERO
                       /\ game.player2 # ZERO_ADDR
                    THEN game.player2
                    ELSE IF is_player2 /\ game.player1_root = FELT_ZERO
                            THEN game.player1
                            ELSE ZERO_ADDR)
           ELSE (IF game.current_turn # caller THEN game.current_turn
                                               ELSE ZERO_ADDR)

\* The deadline with a strict comparison
timeout_passed_strict(elapsed) == elapsed > DEFAULT_TIMEOUT

\* claim_timeout: elapsed >= DEFAULT_TIMEOUT
timeout_passed(elapsed) == elapsed >= DEFAULT_TIMEOUT

\* The pot of a forfeit with the house fee taken off
forfeit_pot_less_fee(game) ==
    LET pot == U256Mul(game.stake_amount, 2)
    IN  U256Sub(pot, house_fee(pot))

\* claim_timeout: the pot of a forfeit
forfeit_pot(game) ==
    IF game.status = "WaitingForCommitments" /\ game.player2 = ZERO_ADDR
       THEN game.stake_amount
       ELSE U256Mul(game.stake_amount, 2)

\* claim_timeout that gives the creator of an open game the stake back
claim_timeout_body_open_game(st, caller, game_id, ts, token_ok) ==
    LET game == ReadGame(st, game_id)
        is_player1 == caller = game.player1
        is_player2 == caller = game.player2
        current_time == ts
        elapsed == current_time - game.last_move_time
        open == game.status = "WaitingForOpponent"
        total_pot == IF open THEN game.stake_amount ELSE forfeit_pot(game)
        g1 == [game EXCEPT !.status = "Forfeited", !.winner = caller]
        st1 == WriteGame(st, game_id, g1)
    IN  IF game.id = 0 THEN Fail(st, "Game does not exist")
        ELSE IF ~(open \/ game.status = "WaitingForCommitments"
                       \/ game.status = "InProgress")
            THEN Fail(st, "Game not active")
        ELSE IF ~(is_player1 \/ is_player2) THEN Fail(st, "Not a player")
        ELSE IF ~open /\ timed_out_player(game, caller) = ZERO_ADDR
            THEN Fail(st, "No timeout to claim")
        ELSE IF current_time < game.last_move_time THEN Fail(st, "u64_sub Overflow")
        ELSE IF ~timeout_passed(elapsed) THEN Fail(st, "Timeout not reached")
        ELSE IF ~TokenOutOk(st1, total_pot, token_ok)
            THEN Fail(st1, "Prize transfer failed")
        ELSE Done(TokenOut(st1, total_pot))

\* claim_timeout without the test of the status
claim_timeout_body_any_status(st, caller, game_id, ts, token_ok) ==
    LET game == ReadGame(st, game_id)
        is_player1 == caller = game.player1
        is_player2 == caller = game.player2
        current_time == ts
        elapsed == current_time - game.last_move_time
        total_pot == forfeit_pot(game)
        g1 == [game EXCEPT !.status = "Forfeited", !.winner = caller]
        st1 == WriteGame(st, game_id, g1)
    IN  IF game.id = 0 THEN Fail(st, "Game does not exist")
        ELSE IF ~(is_player1 \/ is_player2) THEN Fail(st, "Not a player")
        ELSE IF timed_out_player(game, caller) = ZERO_ADDR
            THEN Fail(st, "No timeout to claim")
        ELSE IF current_time < game.last_move_time THEN Fail(st, "u64_sub Overflow")
        ELSE IF ~timeout_passed(elapsed) THEN Fail(st, "Timeout not reached")
        ELSE IF ~TokenOutOk(st1, total_pot, token_ok)
            THEN Fail(st1, "Prize transfer failed")
        ELSE Done(TokenOut(st1, total_pot))

claim_timeout_body(st, caller, game_id, ts, token_ok) ==
    LET game == ReadGame(st, game_id)
        is_player1 == caller = game.player1
        is_player2 == caller = game.player2
        current_time == ts
        elapsed == current_time - game.last_move_time
        total_pot == forfeit_pot(game)
        g1 == [game EXCEPT !.status = "Forfeited", !.winner = caller]
        st1 == WriteGame(st, game_id, g1)
    IN  IF game.id = 0 THEN Fail(st, "Game does not exist")
        ELSE IF ~(game.status = "WaitingForCommitments" \/ game.status = "InProgress")
            THEN Fail(st, "Game not active")
        ELSE IF ~(is_player1 \/ is_player2) THEN Fail(st, "Not a player")
        ELSE IF timed_out_player(game, caller) = ZERO_ADDR
            THEN Fail(st, "No timeout to claim")
        ELSE IF current_time < game.last_move_time THEN Fail(st, "u64_sub Overflow")
        ELSE IF ~timeout_passed(elapsed) THEN Fail(st, "Timeout not reached")
        ELSE IF ~TokenOutOk(st1, total_pot, token_ok)
            THEN Fail(st1, "Prize transfer failed")
        ELSE Done(TokenOut(st1, total_pot))

claim_timeout(st, caller, game_id, ts, token_ok) ==
    Revert(st, claim_timeout_body(st, caller, game_id, ts, token_ok))

\* withdraw_house_funds that lets the balance wrap below zero
withdraw_house_funds_body_unchecked(st, caller, amount, token_ok) ==
    LET balance == st.house_balance
        st1 == [st EXCEPT !.house_balance =
                   IF U256Ge(balance, amount) THEN U256Sub(balance, amount)
                                              ELSE U256_ZERO]
    IN  IF caller # st.owner THEN Fail(st, "Only owner can withdraw")
        ELSE IF ~TokenOutOk(st1, amount, token_ok)
            THEN Fail(st1, "Withdrawal transfer failed")
        ELSE Done(TokenOut(st1, amount))

\* withdraw_house_funds, up to the point where it returns or panics
withdraw_house_funds_body(st, caller, amount, token_ok) ==
    LET balance == st.house_balance
        st1 == [st EXCEPT !.house_balance = U256Sub(balance, amount)]
    IN  IF caller # st.owner THEN Fail(st, "Only owner can withdraw")
        ELSE IF ~U256Ge(balance, amount)
            THEN Fail(st, "Insufficient house balance")
        ELSE IF ~TokenOutOk(st1, amount, token_ok)
            THEN Fail(st1, "Withdrawal transfer failed")
        ELSE Done(TokenOut(st1, amount))

withdraw_house_funds(st, caller, amount, token_ok) ==
    Revert(st, withdraw_house_funds_body(st, caller, amount, token_ok))

\* transfer_ownership open to every caller
transfer_ownership_body_by_anyone(st, caller, new_owner) ==
    IF new_owner = ZERO_ADDR THEN Fail(st, "Invalid new owner")
    ELSE Done([st EXCEPT !.owner = new_owner])

\* transfer_ownership, up to the point where it returns or panics
transfer_ownership_body(st, caller, new_owner) ==
    LET current_owner == st.owner
    IN  IF caller # current_owner THEN Fail(st, "Only owner can transfer")
        ELSE IF new_owner = ZERO_ADDR THEN Fail(st, "Invalid new owner")
        ELSE Done([st EXCEPT !.owner = new_owner])

transfer_ownership(st, caller, new_owner) ==
    Revert(st, transfer_ownership_body(st, caller, new_owner))

\* upgrade, up to the point where it returns or panics: declared is the
\* ledger's answer to replace_class_syscall (the class hash is declared)
upgrade_body(st, caller, new_class_hash, declared) ==
    IF caller # st.owner THEN Fail(st, "Only owner can upgrade")
    ELSE IF ~declared THEN Fail(st, "CLASS_HASH_NOT_DECLARED")
    ELSE Done([st EXCEPT !.class_hash = new_class_hash])

upgrade(st, caller, new_class_hash, declared) ==
    Revert(st, upgrade_body(st, caller, new_class_hash, declared))

(***************************************************************************)
(* The inputs the model draws.                                             *)
(***************************************************************************)
\* The number of clock steps a behaviour may take
MaxTicks == 2

\* Caller identities.  The contract compares addresses only for equality and
\* against zero, so the roles are fixed: account 1 creates, accounts 1 and 2
\* try to join, and account 3 (the owner) is the outsider of every game.
Accounts == {1, 2, 3}

Creators == {1}

Joiners == {1, 2}

\* Game ids created and played, and the ids callers may pass
PlayedIds == {1}

GameIdArgs == {1, 2}

\* MIN_STAKE - 1 wei, and 1 STRK + 49 wei
StakeArgs == {U256Sub(MIN_STAKE, <<1>>), U256Add(MIN_STAKE, <<49>>)}

\* The ships of two boards: carrier, battleship, cruiser 1 and 2, submarine
\* and destroyer of board.ts; board B has its carrier one cell to the right.
ShipsA ==
    {<<x, 0>> : x \in 0..4} \cup {<<x, 2>> : x \in 0..3} \cup
    {<<x, 4>> : x \in 0..2} \cup {<<x, 6>> : x \in 0..2} \cup
    {<<x, 8>> : x \in 0..2} \cup {<<x, 5>> : x \in 8..9}

ShipsB ==
    {<<x, 0>> : x \in 1..5} \cup {<<x, 2>> : x \in 0..3} \cup
    {<<x, 4>> : x \in 0..2} \cup {<<x, 6>> : x \in 0..2} \cup
    {<<x, 8>> : x \in 0..2} \cup {<<x, 5>> : x \in 8..9}

BoardOf(ships) ==
    [y \in 0..(BOARD_SIZE - 1) |->
        [x \in 0..(BOARD_SIZE - 1) |-> IF <<x, y>> \in ships THEN 1 ELSE 0]]

BoardA == BoardOf(ShipsA)

BoardB == BoardOf(ShipsB)

SaltA == Felt(11)

SaltB == Felt(22)

TreeA == buildMerkleTree(BoardA, SaltA)

TreeB == buildMerkleTree(BoardB, SaltB)

\* The roots a caller may commit: zero and the roots of the two clients' trees
RootArgs == {FELT_ZERO, TreeA.root, TreeB.root}

\* The cells attackers aim at, in the order they are tried
TargetCells ==
    <<(<<0, 0>>), (<<1, 0>>), (<<2, 0>>), (<<3, 0>>), (<<4, 0>>),
      (<<0, 2>>), (<<1, 2>>), (<<5, 0>>)>>

OutOfBoard == {<<BOARD_SIZE, 0>>, <<0, BOARD_SIZE>>}

\* The class the contract is deployed with, and a later version of it
DEPLOYED_CLASS == Felt(1001)

ClassHashArgs == {DEPLOYED_CLASS, Felt(1002)}

VARIABLES game_count, games, revealed_cells, owner, house_balance, held,
          class_hash, now, last, mk, pl

vars == <<game_count, games, revealed_cells, owner, house_balance, held,
          class_hash, now, last, mk, pl>>

\* The storage the handlers read and write (held is the contract's balance
\* in the STRK token, written by the token inside the same transaction;
\* class_hash is the class the ledger runs at the contract's address)
St ==
    [game_count |-> game_count, games |-> games,
     revealed_cells |-> revealed_cells, owner |-> owner,
     house_balance |-> house_balance, held |-> held,
     class_hash |-> class_hash]

\* The record of a successful call: the operation, who called, and its inputs
Call(op, caller, game_id, args) ==
    [op |-> op, caller |-> caller, game_id |-> game_id, args |-> args]

\* The effect of one call: the storage it leaves, and the record of the call
\* when it succeeded.  A call that fails and leaves the storage as it was
\* changes no variable: it is a stuttering step and is left out here.
Apply(r, op, caller, game_id, args) ==
    /\ (IF r.err = OK THEN TRUE ELSE r.st # St)
    /\ game_count' = r.st.game_count
    /\ games' = r.st.games
    /\ revealed_cells' = r.st.revealed_cells
    /\ owner' = r.st.owner
    /\ house_balance' = r.st.house_balance
    /\ held' = r.st.held
    /\ class_hash' = r.st.class_hash
    /\ last' = IF r.err = OK THEN Call(op, caller, game_id, args) ELSE last
    /\ UNCHANGED <<now, mk, pl>>

\* The client's Merkle library at rest: no tree built, nothing submitted to
\* the verifier
MkIdle ==
    [phase |-> "idle", board |-> 0, salt |-> FELT_ZERO, x |-> 0, y |-> 0,
     root |-> FELT_ZERO, leaf |-> FELT_ZERO, proof |-> <<>>, leafIndex |-> 0,
     change |-> "none", valid |-> FALSE, validTs |-> FALSE]

\* useState(...) of the placement component: no ship placed, none selected
ShipPlacement ==
    [ships |-> [i \in 1..Len(SHIP_TEMPLATES) |->
                   [id |-> SHIP_TEMPLATES[i].id, length |-> SHIP_TEMPLATES[i].length,
                    x |-> 0, y |-> 0, horizontal |-> TRUE, placed |-> FALSE]],
     selectedShipId |-> "null", isHorizontal |-> TRUE,
     confirmed |-> FALSE, board |-> <<>>, undos |-> 0]

\* constructor(owner)
Init ==
    /\ game_count = 0
    /\ games = <<>>
    /\ revealed_cells = {}
    /\ owner = 3
    /\ house_balance = U256_ZERO
    /\ held = U256_ZERO
    /\ now = 0
    /\ class_hash = DEPLOYED_CLASS
    /\ last = Call("constructor", 3, 0, <<>>)
    /\ mk = MkIdle
    /\ pl = ShipPlacement

\* The clock steps: one second, and one second short of the timeout
TimeSteps == {1, DEFAULT_TIMEOUT - 1}

TicksUsed == (now \div (DEFAULT_TIMEOUT - 1)) + (now % (DEFAULT_TIMEOUT - 1))

Tick ==
    /\ TicksUsed < MaxTicks
    /\ \E d \in TimeSteps : now' = now + d
    /\ UNCHANGED <<game_count, games, revealed_cells, owner, house_balance,
                   held, class_hash, last, mk, pl>>

CreateGame ==
    /\ game_count + 1 \in PlayedIds
    /\ \E caller \in Creators, stake_amount \in StakeArgs, pays \in BOOLEAN :
          Apply(create_game(St, caller, stake_amount, now, pays),
                "create_game", caller, game_count + 1, <<stake_amount>>)

JoinGame ==
    \E caller \in Joiners, game_id \in GameIdArgs, pays \in BOOLEAN :
        Apply(join_game(St, caller, game_id, now, pays),
              "join_game", caller, game_id, <<>>)

CommitBoard ==
    \E caller \in Accounts, game_id \in GameIdArgs, merkle_root \in RootArgs :
        Apply(commit_board(St, caller, game_id, merkle_root, now),
              "commit_board", caller, game_id, <<merkle_root>>)

\* The target cells of a defender's board not yet revealed
OpenTargets(st, game_id, defender) ==
    {i \in 1..Len(TargetCells) :
        ~ReadRevealed(st, game_id, defender,
                      coords_to_index(TargetCells[i][1], TargetCells[i][2]))}

Min(S) == CHOOSE i \in S : \A j \in S : i <= j

\* What an attacker may aim at: the first open target cell, the first
\* resolved one, or a cell outside the board
AttackArgs(st, game_id, caller) ==
    LET game == ReadGame(st, game_id)
        defender == IF caller = game.player1 THEN game.player2 ELSE game.player1
        open == OpenTargets(st, game_id, defender)
        shut == (1..Len(TargetCells)) \ open
    IN  (IF open = {} THEN {} ELSE {TargetCells[Min(open)]})
        \cup (IF shut = {} THEN {} ELSE {TargetCells[Min(shut)]})
        \cup OutOfBoard

Attack ==
    \E caller \in Accounts, game_id \in GameIdArgs :
        \E c \in AttackArgs(St, game_id, caller) :
            Apply(attack(St, caller, game_id, c[1], c[2], now),
                  "attack", caller, game_id, c)

\* What a revealer may submit: the pending cell or a neighbour of it, either
\* answer, and one of four pairs of salt and proof for that cell: the honest
\* pair of either client, client A's salt with a proof one sibling short, and
\* client B's salt with client A's proof.
RevealCells(st, game_id) ==
    LET game == ReadGame(st, game_id)
        px == game.pending_attack_x
        py == game.pending_attack_y
    IN  {<<px, py>>, <<(px + 1) % BOARD_SIZE, py>>, <<px, (py + 1) % BOARD_SIZE>>}

\* The proofs the two clients hold, by leaf index
ProofsA ==
    [i \in 0..(BOARD_SIZE * BOARD_SIZE - 1) |->
        generateProof(TreeA.tree, indexToCoords(i)[1], indexToCoords(i)[2]).proof]

ProofsB ==
    [i \in 0..(BOARD_SIZE * BOARD_SIZE - 1) |->
        generateProof(TreeB.tree, indexToCoords(i)[1], indexToCoords(i)[2]).proof]

ProofArgs(x, y) ==
    LET pa == ProofsA[coordsToIndex(x, y)]
        pb == ProofsB[coordsToIndex(x, y)]
    IN  {<<SaltA, pa>>, <<SaltB, pb>>, <<SaltA, SubSeq(pa, 1, Len(pa) - 1)>>,
         <<SaltB, pa>>}

Reveal ==
    \E caller \in Accounts, game_id \in GameIdArgs :
        \E c \in RevealCells(St, game_id), is_hit \in BOOLEAN :
            \E sp \in ProofArgs(c[1], c[2]) :
                Apply(reveal(St, caller, game_id, c[1], c[2], is_hit, sp[1],
                             sp[2], now),
                      "reveal", caller, game_id, <<c[1], c[2], is_hit>>)

ClaimVictory ==
    \E caller \in Accounts, game_id \in GameIdArgs, token_ok \in BOOLEAN :
        Apply(claim_victory(St, caller, game_id, token_ok),
              "claim_victory", caller, game_id, <<>>)

ClaimTimeout ==
    \E caller \in Accounts, game_id \in GameIdArgs, token_ok \in BOOLEAN :
        Apply(claim_timeout(St, caller, game_id, now, token_ok),
              "claim_timeout", caller, game_id, <<>>)

Next ==
    \/ Tick
    \/ CreateGame
    \/ JoinGame
    \/ CommitBoard
    \/ Attack
    \/ Reveal
    \/ ClaimVictory
    \/ ClaimTimeout

Spec == Init /\ [][Next]_vars

(***************************************************************************)
(* The Merkle library on its own: a client builds the tree of a board and  *)
(* a salt, generates the proof of a cell, and submits leaf, proof and      *)
(* index to the verifier, as generated or changed in one way.  The         *)
(* contract's storage stays as the constructor left it.                    *)
(***************************************************************************)
\* board with the value of cell (x, y) flipped
FlipCell(board, x, y) ==
    [board EXCEPT ![y] = [@ EXCEPT ![x] = 1 - @]]

\* The boards a client may commit to: the two fleets, and boards one cell
\* away from them
MerkleBoards ==
    <<BoardA, BoardB, FlipCell(BoardA, 0, 0), FlipCell(BoardA, 9, 9),
      FlipCell(BoardB, 3, 4)>>

MerkleSalts == {SaltA, SaltB}

\* The trees of every board and salt
Trees ==
    [b \in 1..Len(MerkleBoards) |->
        [s \in MerkleSalts |-> buildMerkleTree(MerkleBoards[b], s)]]

\* The rows generateProof is asked for: the board's, and rows 10 and 12 of the
\* padding (leaves 100..109 and 120..127)
ProofRows == (0..(BOARD_SIZE - 1)) \cup {10, 12}

MkUnchanged ==
    UNCHANGED <<game_count, games, revealed_cells, owner, house_balance, held,
                class_hash, now, last, pl>>

\* buildMerkleTree(board, salt)
MkBuild ==
    /\ mk.phase = "idle"
    /\ \E b \in 1..Len(MerkleBoards), s \in MerkleSalts :
          mk' = [MkIdle EXCEPT !.phase = "built", !.board = b, !.salt = s,
                               !.root = Trees[b][s].root]
    /\ MkUnchanged

\* generateProof(tree, x, y): leaf, proof and index as the library returns them
MkGenerate ==
    /\ mk.phase = "built"
    /\ \E x \in 0..(BOARD_SIZE - 1), y \in ProofRows :
          /\ coordsToIndex(x, y) < PADDED_LEAVES
          /\ LET p == generateProof(Trees[mk.board][mk.salt].tree, x, y)
             IN  mk' = [mk EXCEPT !.phase = "generated", !.x = x, !.y = y,
                                  !.leaf = p.leaf, !.proof = p.proof,
                                  !.leafIndex = p.leafIndex]
    /\ MkUnchanged

\* The submission is changed before it is sent: the leaf of the opposite cell
\* value or of the other salt, a proof one sibling short or one long, or the
\* parent node as the leaf with the rest of the proof
MkChange ==
    /\ mk.phase = "generated"
    /\ mk.change = "none"
    /\ LET onBoard == mk.y < BOARD_SIZE
           value == IF onBoard THEN MerkleBoards[mk.board][mk.y][mk.x] ELSE 0
           parent == IF mk.leafIndex % 2 = 0
                        THEN pedersen(mk.leaf, mk.proof[1])
                        ELSE pedersen(mk.proof[1], mk.leaf)
       IN  \/ /\ onBoard
              /\ mk' = [mk EXCEPT !.change = "value",
                            !.leaf = compute_leaf(mk.x, mk.y, 1 - value, mk.salt)]
           \/ /\ onBoard
              /\ \E s \in MerkleSalts \ {mk.salt} :
                    mk' = [mk EXCEPT !.change = "salt",
                              !.leaf = compute_leaf(mk.x, mk.y, value, s)]
           \/ mk' = [mk EXCEPT !.change = "short",
                         !.proof = SubSeq(mk.proof, 1, Len(mk.proof) - 1)]
           \/ mk' = [mk EXCEPT !.change = "long",
                         !.proof = Append(mk.proof, FELT_ZERO)]
           \/ mk' = [mk EXCEPT !.change = "parent", !.leaf = parent,
                         !.proof = Tail(mk.proof),
                         !.leafIndex = mk.leafIndex \div 2]
    /\ MkUnchanged

\* The submission is verified, by the contract's verifier and by the client's
MkVerify ==
    /\ mk.phase = "generated"
    /\ mk' = [mk EXCEPT !.phase = "verified",
                  !.valid = verify_proof(mk.root, mk.leaf, mk.proof, mk.leafIndex),
                  !.validTs = verifyProof(mk.root, mk.leaf, mk.proof, mk.leafIndex)]
    /\ MkUnchanged

NextMerkle ==
    \/ MkBuild
    \/ MkGenerate
    \/ MkChange
    \/ MkVerify

SpecMerkle == Init /\ [][NextMerkle]_vars

(***************************************************************************)
(* The contract played for its money: games of several stakes, among them  *)
(* exactly 1 STRK and stakes whose fee does not divide evenly, in which    *)
(* each player commits the root of the own client's tree.                  *)
(***************************************************************************)
\* 1 STRK, 1 STRK + 49 wei, and 2.5 STRK + 4999 wei
StakeValues ==
    {MIN_STAKE, U256Add(MIN_STAKE, <<49>>), <<4999, 0, 0, 0, 250>>}

CreateStakedGame ==
    /\ game_count + 1 \in PlayedIds
    /\ \E caller \in Creators, stake_amount \in StakeValues, pays \in BOOLEAN :
          Apply(create_game(St, caller, stake_amount, now, pays),
                "create_game", caller, game_count + 1, <<stake_amount>>)

\* The root of the caller's own client: account 1 plays client A's fleet, the
\* others client B's
OwnRoot(caller) == IF caller = 1 THEN TreeA.root ELSE TreeB.root

CommitOwnBoard ==
    \E caller \in Accounts, game_id \in GameIdArgs :
        Apply(commit_board(St, caller, game_id, OwnRoot(caller), now),
              "commit_board", caller, game_id, <<OwnRoot(caller)>>)

NextStake ==
    \/ Tick
    \/ CreateStakedGame
    \/ JoinGame
    \/ CommitOwnBoard
    \/ Attack
    \/ Reveal
    \/ ClaimVictory
    \/ ClaimTimeout

SpecStake == Init /\ [][NextStake]_vars

(***************************************************************************)
(* Two games at once between the same two players, their calls interleaved *)
(* in every order, and the owner withdrawing from the house balance in     *)
(* between.  The clock stands still.                                       *)
(***************************************************************************)
GameIds == {1, 2}

\* The stake of the first game is 1 STRK, that of the second 2.5 STRK + 4999
StakeOfGame == <<MIN_STAKE, <<4999, 0, 0, 0, 250>>>>

CreateNextGame ==
    /\ game_count + 1 \in GameIds
    /\ \E caller \in Creators, pays \in BOOLEAN :
          Apply(create_game(St, caller, StakeOfGame[game_count + 1], now, pays),
                "create_game", caller, game_count + 1,
                <<StakeOfGame[game_count + 1]>>)

\* What the owner may ask for: the whole balance, one wei more, and the fee of
\* a game of 1 STRK
WithdrawArgs(st) ==
    {st.house_balance, U256Add(st.house_balance, <<1>>),
     house_fee(U256Mul(MIN_STAKE, 2))}

WithdrawHouseFunds ==
    \E caller \in Accounts, token_ok \in BOOLEAN :
        \E amount \in WithdrawArgs(St) \ {U256_ZERO} :
            Apply(withdraw_house_funds(St, caller, amount, token_ok),
                  "withdraw_house_funds", caller, 0, <<amount>>)

NextGames ==
    \/ CreateNextGame
    \/ JoinGame
    \/ CommitOwnBoard
    \/ Attack
    \/ Reveal
    \/ ClaimVictory
    \/ WithdrawHouseFunds

SpecGames == Init /\ [][NextGames]_vars

(***************************************************************************)
(* Two games with the clock running a day at a time.  The first is played *)
(* to any point; the boards of the second are never committed, so it       *)
(* waits with its stakes escrowed until a player claims the timeout.       *)
(* Every way of paying out, victory, forfeit and withdrawal, is taken      *)
(* against the stakes of two games.                                        *)
(***************************************************************************)
\* Days the clock runs
MaxDays == 1

DaysPassed == now \div DEFAULT_TIMEOUT

WaitDay ==
    /\ DaysPassed < MaxDays
    /\ now' = now + DEFAULT_TIMEOUT
    /\ UNCHANGED <<game_count, games, revealed_cells, owner, house_balance,
                   held, class_hash, last, mk, pl>>

CommitFirstBoard ==
    \E caller \in Accounts :
        Apply(commit_board(St, caller, 1, OwnRoot(caller), now),
              "commit_board", caller, 1, <<OwnRoot(caller)>>)

NextBank ==
    \/ WaitDay
    \/ CreateNextGame
    \/ JoinGame
    \/ CommitFirstBoard
    \/ Attack
    \/ Reveal
    \/ ClaimVictory
    \/ ClaimTimeout
    \/ WithdrawHouseFunds

SpecBank == Init /\ [][NextBank]_vars

(***************************************************************************)
(* The owner's administration: one game of 1 STRK is played, to any point, *)
(* and from then on every account tries withdrawals, transfers of          *)
(* ownership to any account or to the zero address, and upgrades.          *)
(***************************************************************************)
AdminOps == {"withdraw_house_funds", "transfer_ownership", "upgrade"}

\* No administrative call has been made yet
Playing == last.op \notin AdminOps

CreateFirstGame ==
    /\ game_count = 0
    /\ \E caller \in Creators :
          Apply(create_game(St, caller, MIN_STAKE, now, TRUE),
                "create_game", caller, 1, <<MIN_STAKE>>)

WithdrawAny ==
    \E caller \in Accounts, token_ok \in BOOLEAN :
        \E amount \in WithdrawArgs(St) :
            Apply(withdraw_house_funds(St, caller, amount, token_ok),
                  "withdraw_house_funds", caller, 0, <<amount>>)

OwnerArgs == Accounts \cup {ZERO_ADDR}

TransferOwnership ==
    \E caller \in Accounts, new_owner \in OwnerArgs :
        Apply(transfer_ownership(St, caller, new_owner),
              "transfer_ownership", caller, 0, <<new_owner>>)

Upgrade ==
    \E caller \in Accounts, new_class_hash \in ClassHashArgs,
       declared \in BOOLEAN :
        Apply(upgrade(St, caller, new_class_hash, declared),
              "upgrade", caller, 0, <<new_class_hash>>)

NextAdmin ==
    \/ Playing /\ CreateFirstGame
    \/ Playing /\ JoinGame
    \/ Playing /\ CommitOwnBoard
    \/ Playing /\ Attack
    \/ Playing /\ Reveal
    \/ Playing /\ ClaimVictory
    \/ WithdrawAny
    \/ TransferOwnership
    \/ Upgrade

SpecAdmin == Init /\ [][NextAdmin]_vars

(***************************************************************************)
(* The placement component (part_000): the user selects a ship that is not *)
(* placed, toggles the orientation, clicks a cell, removes a placed ship,  *)
(* resets, and confirms.  The contract stays as the constructor left it.   *)
(***************************************************************************)
PlUnchanged ==
    UNCHANGED <<game_count, games, revealed_cells, owner, house_balance, held,
                class_hash, now, last, mk>>

\* The places of the unplaced ships in the panel, in the order shown
Unplaced(p) == {i \in 1..Len(p.ships) : ~p.ships[i].placed}

\* onClick of a ship's row: () => !ship.placed && setSelectedShipId(ship.id)
selectShip(p, i) ==
    IF ~p.ships[i].placed THEN [p EXCEPT !.selectedShipId = p.ships[i].id] ELSE p

handleCellClick(p, x, y) ==
    IF p.selectedShipId = "null" THEN p
    ELSE LET i == CHOOSE k \in 1..Len(p.ships) : p.ships[k].id = p.selectedShipId
             newShip == [p.ships[i] EXCEPT !.x = x, !.y = y,
                                           !.horizontal = p.isHorizontal,
                                           !.placed = TRUE]
             placedShips ==
                 SelectSeq(p.ships,
                           LAMBDA sh : sh.placed /\ sh.id # p.selectedShipId)
             tempBoard == generateBoard(placedShips)
         IN  IF isValidPlacement(newShip, tempBoard, placedShips)
                THEN [p EXCEPT !.ships[i] = newShip, !.selectedShipId = "null"]
                ELSE p

handleRemoveShip(p, i) == [p EXCEPT !.ships[i].placed = FALSE]

\* onClick of RESET
resetShips(p) ==
    [p EXCEPT !.ships = [i \in 1..Len(p.ships) |->
                            [p.ships[i] EXCEPT !.placed = FALSE]]]

\* handleConfirm: onPlacementComplete(board, ships) when every ship is placed
handleConfirm(p) ==
    IF \A i \in 1..Len(p.ships) : p.ships[i].placed
       THEN [p EXCEPT !.confirmed = TRUE, !.board = generateBoard(p.ships)]
       ELSE p

\* Six berths that hold the whole fleet, one for each ship
Berths == <<(<<0, 0>>), (<<0, 2>>), (<<0, 4>>), (<<0, 6>>), (<<0, 8>>), (<<6, 0>>)>>

\* The cells the user clicks with ship i selected: the berth of that ship,
\* the berth of the next ship, and a cell near the corner
ClickCells(p) ==
    IF p.selectedShipId = "null" THEN {Berths[1]}
    ELSE LET i == CHOOSE k \in 1..Len(p.ships) : p.ships[k].id = p.selectedShipId
         IN  {Berths[i], Berths[(i % Len(Berths)) + 1], <<8, 8>>}

\* The ships the user picks from the panel: the first and the last one shown
\* as not placed
SelectArgs(p) ==
    IF Unplaced(p) = {} THEN {}
    ELSE {Min(Unplaced(p)), CHOOSE i \in Unplaced(p) : \A j \in Unplaced(p) : j <= i}

\* Removals and resets the user makes in one session
MaxUndos == 1

UndosUsed == pl.undos

SelectShip ==
    /\ ~pl.confirmed
    /\ \E i \in SelectArgs(pl) : pl' = selectShip(pl, i)
    /\ pl' # pl
    /\ PlUnchanged

ToggleOrientation ==
    /\ ~pl.confirmed
    /\ pl' = [pl EXCEPT !.isHorizontal = ~pl.isHorizontal]
    /\ PlUnchanged

CellClick ==
    /\ ~pl.confirmed
    /\ \E c \in ClickCells(pl) : pl' = handleCellClick(pl, c[1], c[2])
    /\ pl' # pl
    /\ PlUnchanged

RemoveShip ==
    /\ ~pl.confirmed
    /\ UndosUsed < MaxUndos
    /\ \E i \in 1..Len(pl.ships) :
          /\ pl.ships[i].placed
          /\ pl' = [handleRemoveShip(pl, i) EXCEPT !.undos = @ + 1]
    /\ PlUnchanged

ResetShips ==
    /\ ~pl.confirmed
    /\ UndosUsed < MaxUndos
    /\ pl' = [resetShips(pl) EXCEPT !.undos = @ + 1]
    /\ PlUnchanged

Confirm ==
    /\ ~pl.confirmed
    /\ pl' = handleConfirm(pl)
    /\ pl' # pl
    /\ PlUnchanged

NextPlacement ==
    \/ SelectShip
    \/ ToggleOrientation
    \/ CellClick
    \/ RemoveShip
    \/ ResetShips
    \/ Confirm

SpecPlacement == Init /\ [][NextPlacement]_vars

(***************************************************************************)
(* The calls the properties range over: every caller, every game id, and   *)
(* every input of the sets above, whatever the state.                      *)
(***************************************************************************)
\* The spec's error names for the contract's panic messages
NotFound == {"Game does not exist"}

InvalidState ==
    {"Game not joinable", "Not in commitment phase", "Game not in progress",
     "Pending attack exists", "No pending attack", "Game not active"}

Unauthorized == {"Cannot join own game", "Not a player", "Not your turn"}

OutOfBounds == {"X out of bounds", "Y out of bounds"}

AlreadyDone == {"Already committed", "Cell already attacked"}

ProofInvalid == {"Wrong X coordinate", "Wrong Y coordinate", "Invalid Merkle proof"}

CellArgs == {TargetCells[i] : i \in 1..Len(TargetCells)} \cup OutOfBoard

\* The times a call may be made at: now, and one timeout later
TimeArgs == {now, now + DEFAULT_TIMEOUT}

\* P holds of the result of every create_game call in the current state
AllCreateCalls(P(_)) ==
    \A c \in Accounts, s \in StakeArgs, pays \in BOOLEAN :
        P(create_game(St, c, s, now, pays))

\* P holds of the result of every call on game id in the current state
AllGameCalls(id, P(_)) ==
    /\ \A c \in Accounts, pays \in BOOLEAN : P(join_game(St, c, id, now, pays))
    /\ \A c \in Accounts, root \in RootArgs :
          P(commit_board(St, c, id, root, now))
    /\ \A c \in Accounts, cell \in CellArgs :
          P(attack(St, c, id, cell[1], cell[2], now))
    /\ \A c \in Accounts, cell \in RevealCells(St, id), is_hit \in BOOLEAN :
          \A sp \in ProofArgs(cell[1], cell[2]) :
              P(reveal(St, c, id, cell[1], cell[2], is_hit, sp[1], sp[2], now))
    /\ \A c \in Accounts, token_ok \in BOOLEAN :
          P(claim_victory(St, c, id, token_ok))
    /\ \A c \in Accounts, ts \in TimeArgs, token_ok \in BOOLEAN :
          P(claim_timeout(St, c, id, ts, token_ok))

Terminal(game) == game.status \in {"Finished", "Forfeited"}

(***************************************************************************)
(* C1: in every step the status of every game stays the same or moves      *)
(* along one edge of the lifecycle, each edge only by a successful call of *)
(* its operation: WaitingForOpponent -> WaitingForCommitments (join_game), *)
(* WaitingForCommitments -> InProgress (commit_board), InProgress ->       *)
(* Finished (claim_victory), WaitingForCommitments or InProgress ->        *)
(* Forfeited (claim_timeout).  The edges form no cycle, so no status is    *)
(* revisited.                                                              *)
(***************************************************************************)
StatusEdges ==
    {<<"WaitingForOpponent", "WaitingForCommitments", "join_game">>,
     <<"WaitingForCommitments", "InProgress", "commit_board">>,
     <<"InProgress", "Finished", "claim_victory">>,
     <<"WaitingForCommitments", "Forfeited", "claim_timeout">>,
     <<"InProgress", "Forfeited", "claim_timeout">>}

C1_StatusEdges ==
    [][\A id \in GameIdArgs :
          LET old == ReadGame(St, id).status
              new == ReadGame(St', id).status
          IN  \/ old = new
              \/ /\ <<old, new, last'.op>> \in StatusEdges
                 /\ last'.game_id = id]_vars

\* A game forfeited out of the commitment phase, and one won
C1_Witness ==
    \E id \in DOMAIN games :
        /\ games[id].status = "Forfeited"
        /\ games[id].player1_root = FELT_ZERO
        /\ last.op = "claim_timeout"

(***************************************************************************)
(* C2: every operation is all-or-nothing: a call that fails, at a          *)
(* precondition or at its token transfer, leaves every Game record,        *)
(* game_count, every revealed-cell flag and house_balance as they were.    *)
(***************************************************************************)
SameStorage(st) ==
    /\ st.games = games
    /\ st.game_count = game_count
    /\ st.revealed_cells = revealed_cells
    /\ st.house_balance = house_balance

FailedUnchanged(r) == r.err # OK => SameStorage(r.st)

C2_AllOrNothing ==
    /\ AllCreateCalls(FailedUnchanged)
    /\ \A id \in GameIdArgs : AllGameCalls(id, FailedUnchanged)

\* A winner's claim_victory passes every check and fails at the prize transfer,
\* after the handler has written the game and the house balance
C2_Witness ==
    \E id \in DOMAIN games, c \in Accounts :
        LET r == claim_victory_body(St, c, id, FALSE)
        IN  /\ r.err = "Prize transfer failed"
            /\ r.st.games[id].status = "Finished"
            /\ claim_victory(St, c, id, FALSE).err = "Prize transfer failed"

(***************************************************************************)
(* C3: once a game is Finished or Forfeited, every later join_game,        *)
(* commit_board, attack, reveal, claim_victory and claim_timeout on it, by *)
(* any caller at any time, fails and changes no field of its record.       *)
(***************************************************************************)
C3_TerminalImmutable ==
    \A id \in DOMAIN games :
        Terminal(games[id]) =>
            AllGameCalls(id, LAMBDA r : r.err # OK /\ ReadGame(r.st, id) = games[id])

\* A won game, after the deadline that would let a live game be forfeited
C3_Witness ==
    \E id \in DOMAIN games :
        /\ games[id].status = "Finished"
        /\ games[id].winner # ZERO_ADDR
        /\ now - games[id].last_move_time >= DEFAULT_TIMEOUT

(***************************************************************************)
(* C4: a game that is InProgress or Finished has both roots non-zero:      *)
(* commit_board moves the status to InProgress only when both are set.     *)
(***************************************************************************)
C4_RootsSetInProgress ==
    \A id \in DOMAIN games :
        games[id].status \in {"InProgress", "Finished"} =>
            games[id].player1_root # FELT_ZERO /\ games[id].player2_root # FELT_ZERO

\* The second commit has just started the game
C4_Witness ==
    \E id \in DOMAIN games :
        /\ games[id].status = "InProgress"
        /\ last = Call("commit_board", games[id].player2, id, <<games[id].player2_root>>)
        /\ games[id].player1_root # games[id].player2_root

\* The root stored for a player of a game
StoredRoot(game, player) ==
    IF player = game.player1 THEN game.player1_root ELSE game.player2_root

OtherPlayer(game, player) ==
    IF player = game.player1 THEN game.player2 ELSE game.player1

Hits(game, player) ==
    IF player = game.player1 THEN game.player1_hits ELSE game.player2_hits

(***************************************************************************)
(* C5: roots are write-once: after a successful commit_board(id, root) by  *)
(* a player, whatever root was passed, the root stored for that player is  *)
(* the committed value and every further commit_board by that player on    *)
(* the game, with any root, fails with AlreadyDone.                        *)
(***************************************************************************)
C5_RootWriteOnce ==
    last.op = "commit_board" =>
        LET game == ReadGame(St, last.game_id)
        IN  /\ StoredRoot(game, last.caller) = last.args[1]
            /\ \A root2 \in RootArgs, ts \in TimeArgs :
                  commit_board(St, last.caller, last.game_id, root2, ts).err
                      \in AlreadyDone

(***************************************************************************)
(* C6: after a successful attack(id, x, y) the game holds (x, y) as its    *)
(* pending attack and the defender is current_turn; and while a game has a *)
(* pending attack, every attack on it, by any caller on any cell, fails    *)
(* with InvalidState.                                                      *)
(***************************************************************************)
C6_AttackSetsPending ==
    /\ last.op = "attack" =>
          LET game == ReadGame(St, last.game_id)
          IN  /\ game.status = "InProgress"
              /\ game.has_pending_attack
              /\ game.pending_attack_x = last.args[1]
              /\ game.pending_attack_y = last.args[2]
              /\ game.current_turn = OtherPlayer(game, last.caller)
              /\ game.current_turn # last.caller
    /\ \A id \in DOMAIN games :
          games[id].has_pending_attack =>
              \A c \in Accounts, cell \in CellArgs, ts \in TimeArgs :
                  attack(St, c, id, cell[1], cell[2], ts).err \in InvalidState

\* The second player's attack on (1, 0) is pending
C6_Witness ==
    \E id \in DOMAIN games :
        /\ last = Call("attack", games[id].player2, id, <<1, 0>>)
        /\ games[id].has_pending_attack
        /\ games[id].current_turn = games[id].player1

(***************************************************************************)
(* C7: a successful reveal(id, x, y, is_hit, salt, proof) sets the         *)
(* revealed flag of cell index(x, y) of the revealer's board and no other  *)
(* flag, adds 1 to the attacker's hit counter if is_hit and nothing        *)
(* otherwise, leaves the revealer's counter alone, clears the pending      *)
(* attack, and leaves current_turn with the revealer, who can attack next  *)
(* and is the only caller who can.                                         *)
(***************************************************************************)
C7_RevealEffects ==
    [][(last'.op = "reveal" /\ games' # games) =>
          LET id == last'.game_id
              caller == last'.caller
              old == ReadGame(St, id)
              new == ReadGame(St', id)
              attacker == OtherPlayer(old, caller)
              idx == coords_to_index(last'.args[1], last'.args[2])
          IN  /\ revealed_cells' = revealed_cells \cup {<<id, caller, idx>>}
              /\ Hits(new, attacker) =
                     Hits(old, attacker) + (IF last'.args[3] THEN 1 ELSE 0)
              /\ Hits(new, caller) = Hits(old, caller)
              /\ attacker # caller
              /\ ~new.has_pending_attack
              /\ new.current_turn = caller
              /\ \A c \in Accounts, cell \in CellArgs :
                    attack(St', c, id, cell[1], cell[2], now').err = OK
                        => c = caller
              /\ \E x, y \in 0..(BOARD_SIZE - 1) :
                    attack(St', caller, id, x, y, now').err = OK]_vars

\* The first player has just revealed a hit, and the second has a hit to its
\* name
C7_Witness ==
    \E id \in DOMAIN games :
        /\ last.op = "reveal"
        /\ last.caller = games[id].player1
        /\ last.game_id = id
        /\ last.args[3]
        /\ games[id].player2_hits >= 1
        /\ games[id].player1_hits = 0
        /\ ~games[id].has_pending_attack

\* The games that are waiting for a reveal
PendingGames ==
    {id \in DOMAIN games :
        games[id].status = "InProgress" /\ games[id].has_pending_attack}

(***************************************************************************)
(* C8: a reveal that fails, by any caller, for any cell, answer, salt and  *)
(* proof, leaves the pending attack, current_turn, both hit counters and   *)
(* the revealed flags as they were, and afterwards the same defender has a *)
(* reveal of the pending cell that succeeds.                               *)
(***************************************************************************)
C8_FailedRevealRetry ==
    \A id \in PendingGames :
        LET game == games[id]
            px == game.pending_attack_x
            py == game.pending_attack_y
        IN  \A c \in Accounts, cell \in RevealCells(St, id), is_hit \in BOOLEAN :
                \A sp \in ProofArgs(cell[1], cell[2]) :
                    LET r == reveal(St, c, id, cell[1], cell[2], is_hit,
                                    sp[1], sp[2], now)
                        after == ReadGame(r.st, id)
                    IN  r.err # OK =>
                            /\ after.has_pending_attack
                            /\ after.pending_attack_x = px
                            /\ after.pending_attack_y = py
                            /\ after.current_turn = game.current_turn
                            /\ after.player1_hits = game.player1_hits
                            /\ after.player2_hits = game.player2_hits
                            /\ r.st.revealed_cells = revealed_cells
                            /\ \E hit2 \in BOOLEAN, sp2 \in ProofArgs(px, py) :
                                  reveal(r.st, game.current_turn, id, px, py,
                                         hit2, sp2[1], sp2[2], now).err = OK

\* A pending attack whose reveal fails by the wrong caller, by the wrong
\* cell and by a proof that does not verify
C8_Witness ==
    \E id \in PendingGames :
        LET game == games[id]
            d == game.current_turn
            px == game.pending_attack_x
            py == game.pending_attack_y
            pa == ProofsA[coords_to_index(px, py)]
            short == SubSeq(pa, 1, Len(pa) - 1)
        IN  /\ reveal(St, OtherPlayer(game, d), id, px, py, TRUE, SaltA, pa,
                      now).err = "Not your turn"
            /\ reveal(St, d, id, (px + 1) % BOARD_SIZE, py, TRUE, SaltA, pa,
                      now).err = "Wrong X coordinate"
            /\ reveal(St, d, id, px, py, TRUE, SaltA, short, now).err
                   = "Invalid Merkle proof"
            /\ reveal(St, d, id, px, py, TRUE, SaltA, pa, now).err = OK

\* In state st no attack on a cell already revealed for its defender
\* succeeds, and one that passes the checks before it fails with AlreadyDone
RevealedNotAttackable(st, ts) ==
    \A id \in DOMAIN st.games, c \in Accounts, cell \in CellArgs :
        LET game == st.games[id]
            r == attack(st, c, id, cell[1], cell[2], ts)
        IN  (/\ cell \notin OutOfBoard
             /\ ReadRevealed(st, id, OtherPlayer(game, c),
                             coords_to_index(cell[1], cell[2])))
            => /\ r.err # OK
               /\ (/\ game.status = "InProgress"
                   /\ ~game.has_pending_attack
                   /\ c = game.current_turn) => r.err \in AlreadyDone

(***************************************************************************)
(* C9: a cell of a defender's board is resolved at most once: no step      *)
(* clears a revealed flag, an attack on a cell already revealed for its    *)
(* defender fails with AlreadyDone, every successful attack targets a cell *)
(* not yet revealed for the defender, and every successful reveal sets a   *)
(* flag that was not set.                                                  *)
(***************************************************************************)
C9_CellResolvedOnce ==
    [][/\ revealed_cells \subseteq revealed_cells'
       /\ RevealedNotAttackable(St, now)
       /\ RevealedNotAttackable(St', now')
       /\ (last'.op = "attack" /\ games' # games) =>
              <<last'.game_id,
                OtherPlayer(ReadGame(St, last'.game_id), last'.caller),
                coords_to_index(last'.args[1], last'.args[2])>>
                  \notin revealed_cells
       /\ (last'.op = "reveal" /\ games' # games) =>
              LET flag == <<last'.game_id, last'.caller,
                            coords_to_index(last'.args[1], last'.args[2])>>
              IN  flag \notin revealed_cells /\ flag \in revealed_cells']_vars

\* The player on turn attacks a cell already revealed for the defender
C9_Witness ==
    \E id \in DOMAIN games, cell \in CellArgs :
        /\ <<id, games[id].player1, coords_to_index(cell[1], cell[2])>>
               \in revealed_cells
        /\ <<id, games[id].player2, coords_to_index(cell[1], cell[2])>>
               \in revealed_cells
        /\ attack(St, games[id].current_turn, id, cell[1], cell[2], now).err
               = "Cell already attacked"

\* A leaf and proof that verify against the root of the defender's opponent
\* and not against the defender's own
ForeignKit(game, is_hit, salt, proof) ==
    LET d == game.current_turn
        px == game.pending_attack_x
        py == game.pending_attack_y
        leaf == compute_leaf(px, py, IF is_hit THEN 1 ELSE 0, salt)
        idx == coords_to_index(px, py)
    IN  /\ verify_proof(StoredRoot(game, OtherPlayer(game, d)), leaf, proof, idx)
        /\ ~verify_proof(StoredRoot(game, d), leaf, proof, idx)

(***************************************************************************)
(* C10: a reveal is verified against the revealer's own root: whatever     *)
(* roots the two players committed, a reveal by the defender with a leaf   *)
(* and proof that verify against the other player's root and not against   *)
(* the defender's own fails with ProofInvalid.                             *)
(***************************************************************************)
C10_OwnRootOnly ==
    \A id \in PendingGames :
        LET game == games[id]
            px == game.pending_attack_x
            py == game.pending_attack_y
        IN  \A is_hit \in BOOLEAN, sp \in ProofArgs(px, py) :
                ForeignKit(game, is_hit, sp[1], sp[2]) =>
                    reveal(St, game.current_turn, id, px, py, is_hit, sp[1],
                           sp[2], now).err \in ProofInvalid

\* The first player committed the second client's tree and the second player
\* the first client's; the defender offers the kit of the attacker's tree
C10_Witness ==
    \E id \in PendingGames :
        LET game == games[id]
            px == game.pending_attack_x
            py == game.pending_attack_y
        IN  /\ game.player1_root = TreeB.root
            /\ game.player2_root = TreeA.root
            /\ \E is_hit \in BOOLEAN, sp \in ProofArgs(px, py) :
                  /\ ForeignKit(game, is_hit, sp[1], sp[2])
                  /\ reveal(St, game.current_turn, id, px, py, is_hit, sp[1],
                            sp[2], now).err = "Invalid Merkle proof"

\* The depth of the tree the submission was generated from
TreeDepth == Len(Trees[mk.board][mk.salt].tree) - 1

(***************************************************************************)
(* C11: the verifier returns false whenever the index is 100 or more (a    *)
(* padding leaf) and whenever the proof length differs from the depth of   *)
(* the tree, whatever root, leaf and siblings are supplied.                *)
(***************************************************************************)
C11_PaddingAndLengthRejected ==
    (/\ mk.phase = "verified"
     /\ (mk.leafIndex >= BOARD_SIZE * BOARD_SIZE \/ Len(mk.proof) # TreeDepth))
        => ~mk.valid /\ ~mk.validTs

(***************************************************************************)
(* C12: round trip: for every board, salt and cell (x, y) of the board,    *)
(* the proof generateProof returns from the tree of buildMerkleTree is     *)
(* accepted by verify_proof against the root of that tree with the leaf    *)
(* compute_leaf(x, y, board[y][x], salt) and the index y * 10 + x.         *)
(***************************************************************************)
C12_RoundTrip ==
    (mk.phase = "verified" /\ mk.change = "none" /\ mk.y < BOARD_SIZE) =>
        LET leaf == compute_leaf(mk.x, mk.y, MerkleBoards[mk.board][mk.y][mk.x],
                                 mk.salt)
            index == coords_to_index(mk.x, mk.y)
        IN  /\ mk.leaf = leaf
            /\ mk.leafIndex = index
            /\ mk.valid
            /\ verify_proof(mk.root, leaf, mk.proof, index)

\* The proof of cell (3, 4) of the second fleet, as generated, is accepted
C12_Witness ==
    /\ mk.phase = "verified"
    /\ mk.change = "none"
    /\ mk.board = 2
    /\ mk.x = 3 /\ mk.y = 4
    /\ Len(mk.proof) = TreeDepth
    /\ mk.valid

(***************************************************************************)
(* C13: binding: with the hash collision-free, a board that differs from   *)
(* another in the value of one cell, or the same board built with another  *)
(* salt, has a different root.                                             *)
(***************************************************************************)
C13_Binding ==
    mk.phase = "built" =>
        \A b2 \in 1..Len(MerkleBoards), s2 \in MerkleSalts :
            (b2 # mk.board \/ s2 # mk.salt) => Trees[b2][s2].root # mk.root

\* The tree of the first fleet with its last cell flipped
C13_Witness ==
    /\ mk.phase = "built"
    /\ MerkleBoards[mk.board] = FlipCell(BoardA, 9, 9)
    /\ mk.salt = SaltA
    /\ mk.root # TreeA.root
    /\ \A i \in 1..(BOARD_SIZE * BOARD_SIZE - 1) :
          Trees[mk.board][mk.salt].leaves[i] = TreeA.leaves[i]

\* The board behind a committed root, and the salts and proofs a defender
\* may try for cell (x, y): the two clients' proofs, each also one sibling
\* short, one long and without its first sibling, and the empty proof
CommittedBoard(root) == IF root = TreeA.root THEN BoardA ELSE BoardB

LieSalts == {SaltA, SaltB, FELT_ZERO}

LieProofs(x, y) ==
    LET honest == {ProofsA[coordsToIndex(x, y)], ProofsB[coordsToIndex(x, y)]}
    IN  honest
        \cup {SubSeq(p, 1, Len(p) - 1) : p \in honest}
        \cup {Append(p, FELT_ZERO) : p \in honest}
        \cup {Tail(p) : p \in honest}
        \cup {<<>>}

(***************************************************************************)
(* C14: a defender whose root is the root of buildMerkleTree(board, salt)  *)
(* cannot lie about the attacked cell: every reveal that succeeded         *)
(* answered with the value of the cell in the committed board, and a       *)
(* reveal of the pending cell with the opposite answer fails for every     *)
(* salt and every proof, of any length.                                    *)
(***************************************************************************)
C14_NoLie ==
    /\ last.op = "reveal" =>
          LET game == ReadGame(St, last.game_id)
              board == CommittedBoard(StoredRoot(game, last.caller))
          IN  last.args[3] = (board[last.args[2]][last.args[1]] = 1)
    /\ \A id \in PendingGames :
          LET game == games[id]
              d == game.current_turn
              px == game.pending_attack_x
              py == game.pending_attack_y
              truth == CommittedBoard(StoredRoot(game, d))[py][px] = 1
          IN  \A salt \in LieSalts, proof \in LieProofs(px, py) :
                  reveal(St, d, id, px, py, ~truth, salt, proof, now).err
                      \in ProofInvalid

\* An attack on water is pending: the honest answer is accepted and the
\* opposite answer with the same salt and proof is refused
C14_Witness ==
    \E id \in PendingGames :
        LET game == games[id]
            d == game.current_turn
            px == game.pending_attack_x
            py == game.pending_attack_y
            pa == ProofsA[coordsToIndex(px, py)]
        IN  /\ StoredRoot(game, d) = TreeA.root
            /\ BoardA[py][px] = 0
            /\ reveal(St, d, id, px, py, FALSE, SaltA, pa, now).err = OK
            /\ reveal(St, d, id, px, py, TRUE, SaltA, pa, now).err
                   = "Invalid Merkle proof"

\* The spec's names for the remaining panic messages
ThresholdNotMet == {"Not enough hits to win"}

TimeoutNotReached == {"Timeout not reached"}

NoTimeoutParty == {"No timeout to claim"}

\* The players of a game
Players(game) == {game.player1, game.player2} \ {ZERO_ADDR}

HitArgs == {0, HITS_TO_WIN - 1, HITS_TO_WIN, HITS_TO_WIN + 1, U8_MAX}

\* game with the counter of player set to hits
WithHits(game, player, hits) ==
    IF player = game.player1 THEN [game EXCEPT !.player1_hits = hits]
                             ELSE [game EXCEPT !.player2_hits = hits]

MoveOps == {"create_game", "join_game", "commit_board", "attack", "reveal"}

\* In the state st, the timeout of every game is claimable from exactly
\* DEFAULT_TIMEOUT after its last move on, by whoever could claim it at all
DeadlineInclusive(st) ==
    \A id \in DOMAIN st.games, c \in Accounts :
        LET lmt == st.games[id].last_move_time
        IN  claim_timeout(st, c, id, lmt + 2 * DEFAULT_TIMEOUT, TRUE).err = OK =>
                /\ \A ts \in {lmt, lmt + 1, lmt + DEFAULT_TIMEOUT - 1} :
                      claim_timeout(st, c, id, ts, TRUE).err \in TimeoutNotReached
                /\ \A ts \in {lmt + DEFAULT_TIMEOUT, lmt + DEFAULT_TIMEOUT + 1} :
                      claim_timeout(st, c, id, ts, TRUE).err = OK

(***************************************************************************)
(* C17: the timeout is 86400 seconds, inclusive: a claim_timeout that      *)
(* meets every other precondition fails with TimeoutNotReached while       *)
(* now - last_move_time < 86400 and succeeds from 86400 on, and            *)
(* last_move_time is the time of the last successful create_game,          *)
(* join_game, commit_board, attack or reveal on the game.                  *)
(***************************************************************************)
C17_TimeoutBoundary ==
    [][/\ DeadlineInclusive(St)
       /\ DeadlineInclusive(St')
       /\ \A id \in DOMAIN games' :
             LET new == games'[id]
             IN  IF last'.op \in MoveOps /\ last'.game_id = id /\ games' # games
                    THEN new.last_move_time = now'
                    ELSE /\ id \in DOMAIN games
                         /\ new.last_move_time = games[id].last_move_time
       /\ (last'.op = "claim_timeout" /\ games' # games) =>
             now - ReadGame(St, last'.game_id).last_move_time >= DEFAULT_TIMEOUT]_vars

\* Exactly 86400 seconds after the last move, an attack, the claim succeeds;
\* a second earlier it would have failed
C17_Witness ==
    \E id \in DOMAIN games, c \in Accounts :
        LET game == games[id]
        IN  /\ game.status = "InProgress"
            /\ game.has_pending_attack
            /\ now = game.last_move_time + DEFAULT_TIMEOUT
            /\ claim_timeout(St, c, id, now, TRUE).err = OK
            /\ claim_timeout(St, c, id, now - 1, TRUE).err = "Timeout not reached"

\* The times a timeout is claimed at once the deadline of game has passed
AfterDeadline(game) ==
    {game.last_move_time + DEFAULT_TIMEOUT,
     game.last_move_time + DEFAULT_TIMEOUT + (DEFAULT_TIMEOUT - 1)}

(***************************************************************************)
(* C18: in an InProgress game the party that forfeits on timeout is        *)
(* current_turn: after the deadline claim_timeout succeeds for the player  *)
(* who is not current_turn and fails with NoTimeoutParty for the player    *)
(* who is, with an attack pending and with none.                           *)
(***************************************************************************)
C18_ObligatedPartyForfeits ==
    \A id \in DOMAIN games :
        LET game == games[id]
        IN  game.status = "InProgress" =>
                /\ game.current_turn \in Players(game)
                /\ \A c \in Players(game), ts \in AfterDeadline(game) :
                      LET r == claim_timeout(St, c, id, ts, TRUE)
                      IN  IF c = game.current_turn
                             THEN r.err \in NoTimeoutParty
                             ELSE /\ r.err = OK
                                  /\ ReadGame(r.st, id).winner = c
                                  /\ ReadGame(r.st, id).status = "Forfeited"

\* The defender owes a reveal and the deadline has passed: the attacker can
\* claim, the defender cannot
C18_Witness ==
    \E id \in DOMAIN games :
        LET game == games[id]
            defender == game.current_turn
            attacker == OtherPlayer(game, defender)
        IN  /\ game.status = "InProgress"
            /\ game.has_pending_attack
            /\ now - game.last_move_time >= DEFAULT_TIMEOUT
            /\ claim_timeout(St, attacker, id, now, TRUE).err = OK
            /\ claim_timeout(St, defender, id, now, TRUE).err = "No timeout to claim"

(***************************************************************************)
(* C19: in WaitingForCommitments the timed-out party is the one player who *)
(* has not committed: after the deadline claim_timeout succeeds only for a *)
(* caller who has committed a root and whose opponent has not; it fails    *)
(* with NoTimeoutParty when the opponent has committed and when the caller *)
(* has not.                                                                *)
(***************************************************************************)
C19_UncommittedPartyForfeits ==
    \A id \in DOMAIN games :
        LET game == games[id]
        IN  game.status = "WaitingForCommitments" =>
                \A c \in Players(game), ts \in AfterDeadline(game) :
                    LET r == claim_timeout(St, c, id, ts, TRUE)
                        own == StoredRoot(game, c)
                        other == StoredRoot(game, OtherPlayer(game, c))
                    IN  /\ r.err = OK => (own # FELT_ZERO /\ other = FELT_ZERO)
                        /\ other # FELT_ZERO => r.err \in NoTimeoutParty
                        /\ own = FELT_ZERO => r.err \in NoTimeoutParty

Started(game) ==
    game.player1_root # FELT_ZERO /\ game.player2_root # FELT_ZERO

OnBoard(x, y) == x < BOARD_SIZE /\ y < BOARD_SIZE

(***************************************************************************)
(* C21, as stated: in every InProgress state a pending attack is present,  *)
(* with coordinates inside the board.                                      *)
(***************************************************************************)
C21_AlwaysPending ==
    \A id \in DOMAIN games :
        games[id].status = "InProgress" =>
            /\ games[id].has_pending_attack
            /\ OnBoard(games[id].pending_attack_x, games[id].pending_attack_y)

(***************************************************************************)
(* C21, amended: a game has at most one pending attack: in an InProgress   *)
(* game an attack is pending exactly from a successful attack to the       *)
(* reveal that answers it, with coordinates inside the board, and none is  *)
(* pending before the first attack and after each reveal; a game that has  *)
(* not reached InProgress has none.                                        *)
(***************************************************************************)
C21_AtMostOnePending ==
    \A id \in DOMAIN games :
        LET game == games[id]
        IN  /\ game.has_pending_attack =>
                  /\ OnBoard(game.pending_attack_x, game.pending_attack_y)
                  /\ Started(game)
            /\ game.status = "InProgress" =>
                  (game.has_pending_attack <=> last.op = "attack")
            /\ game.status \in {"WaitingForOpponent", "WaitingForCommitments"} =>
                  ~game.has_pending_attack

\* A game in play between a reveal and the next attack
C21_Witness ==
    \E id \in DOMAIN games :
        /\ games[id].status = "InProgress"
        /\ ~games[id].has_pending_attack
        /\ last.op = "reveal"
        /\ games[id].pending_attack_x = 1

(***************************************************************************)
(* C22, as stated: in every state of every created game current_turn is    *)
(* one of its two players, never zero and never a third party.             *)
(***************************************************************************)
C22_TurnAlwaysPlayer ==
    \A id \in DOMAIN games :
        /\ games[id].current_turn # ZERO_ADDR
        /\ games[id].current_turn \in {games[id].player1, games[id].player2}

(***************************************************************************)
(* C22, amended: current_turn is zero until both boards are committed, and *)
(* from then on, in play and after the game has ended, it is one of the    *)
(* two joined players, never zero and never a third party.                 *)
(***************************************************************************)
C22_TurnIsPlayerOncePlaying ==
    \A id \in DOMAIN games :
        LET game == games[id]
        IN  IF game.status \in {"InProgress", "Finished"}
               \/ (game.status = "Forfeited" /\ Started(game))
               THEN /\ game.current_turn \in {game.player1, game.player2}
                    /\ game.current_turn # ZERO_ADDR
                    /\ game.player1 # ZERO_ADDR /\ game.player2 # ZERO_ADDR
               ELSE game.current_turn = ZERO_ADDR

\* The second commit came at an odd time and gave player1 the first turn
C22_Witness ==
    \E id \in DOMAIN games :
        /\ games[id].status = "InProgress"
        /\ last.op = "commit_board"
        /\ games[id].current_turn = games[id].player1
        /\ games[id].last_move_time % 2 = 1

(***************************************************************************)
(* C23: hit counters never decrease: in every step each counter of every   *)
(* game stays as it was or grows by exactly 1, and it grows only in a      *)
(* successful reveal on that game with is_hit = true; a new game starts    *)
(* with both counters at 0.                                                *)
(***************************************************************************)
C23_HitsMonotone ==
    [][\A id \in DOMAIN games' :
          IF id \in DOMAIN games
             THEN \A p \in {games[id].player1, games[id].player2} :
                     LET old == Hits(games[id], p)
                         new == Hits(games'[id], p)
                     IN  \/ new = old
                         \/ /\ new = old + 1
                            /\ last'.op = "reveal"
                            /\ last'.game_id = id
                            /\ last'.args[3]
                            /\ last'.caller # p
             ELSE games'[id].player1_hits = 0 /\ games'[id].player2_hits = 0]_vars

\* Both players have scored twice
C23_Witness ==
    \E id \in DOMAIN games :
        /\ games[id].player1_hits = 2
        /\ games[id].player2_hits = 2
        /\ last.op = "reveal"
        /\ last.args[3]

(***************************************************************************)
(* C24: while an attack is pending on a game, the only calls that succeed  *)
(* on it are reveal by the defender and, once the deadline has passed,     *)
(* claim_timeout; join_game, commit_board, attack and claim_victory fail   *)
(* and leave the game as it was.                                           *)
(***************************************************************************)
C24_OnlyRevealWhilePending ==
    \A id \in PendingGames :
        LET game == games[id]
            kept(r) == r.err # OK /\ ReadGame(r.st, id) = game
        IN  /\ \A c \in Accounts, pays \in BOOLEAN : kept(join_game(St, c, id, now, pays))
            /\ \A c \in Accounts, root \in RootArgs :
                  kept(commit_board(St, c, id, root, now))
            /\ \A c \in Accounts, cell \in CellArgs :
                  kept(attack(St, c, id, cell[1], cell[2], now))
            /\ \A c \in Accounts : kept(claim_victory(St, c, id, TRUE))
            /\ \A c \in Accounts, ts \in TimeArgs :
                  claim_timeout(St, c, id, ts, TRUE).err = OK =>
                      ts - game.last_move_time >= DEFAULT_TIMEOUT
            /\ \A c \in Accounts, cell \in RevealCells(St, id), is_hit \in BOOLEAN :
                  \A sp \in ProofArgs(cell[1], cell[2]) :
                      reveal(St, c, id, cell[1], cell[2], is_hit, sp[1], sp[2],
                             now).err = OK => c = game.current_turn

(***************************************************************************)
(* C25: no game is Finished or Forfeited with has_pending_attack = true.   *)
(***************************************************************************)
C25_NoPendingWhenTerminal ==
    \A id \in DOMAIN games :
        Terminal(games[id]) => ~games[id].has_pending_attack

\* The players who have staked in a game and not been paid out
Staked(game) ==
    IF Terminal(game) THEN 0 ELSE IF game.player2 = ZERO_ADDR THEN 1 ELSE 2

\* The escrow of the games 1..n
RECURSIVE EscrowUpTo(_)
EscrowUpTo(n) ==
    IF n = 0 THEN U256_ZERO
    ELSE U256Add(EscrowUpTo(n - 1),
                 U256Mul(games[n].stake_amount, Staked(games[n])))

(***************************************************************************)
(* C26: what the contract holds beyond the house balance is, for every     *)
(* game that has not ended, stake_amount times the number of players who   *)
(* have staked (1 before join, 2 after): create_game takes stake_amount    *)
(* from the creator, join_game takes the same stake_amount from the        *)
(* joiner, and stake_amount never changes after creation.                  *)
(***************************************************************************)
C26_EscrowIsStakes ==
    /\ [](held = U256Add(house_balance, EscrowUpTo(Len(games))))
    /\ [][/\ \A id \in DOMAIN games :
                /\ id \in DOMAIN games'
                /\ games'[id].stake_amount = games[id].stake_amount
                /\ (games[id].status = "WaitingForOpponent"
                    /\ games'[id].status = "WaitingForCommitments") =>
                      /\ Staked(games[id]) = 1 /\ Staked(games'[id]) = 2
                      /\ held' = U256Add(held, games[id].stake_amount)
          /\ \A id \in (DOMAIN games') \ (DOMAIN games) :
                /\ Staked(games'[id]) = 1
                /\ held' = U256Add(held, games'[id].stake_amount)
                /\ U256Ge(games'[id].stake_amount, MIN_STAKE)]_vars

\* A joined game of 2.5 STRK + 4999 wei: the contract holds twice that
C26_Witness ==
    \E id \in DOMAIN games :
        /\ last.op = "join_game"
        /\ games[id].stake_amount = <<4999, 0, 0, 0, 250>>
        /\ Staked(games[id]) = 2
        /\ held = <<9998, 0, 0, 0, 500>>

\* The fee of a finished game
FeeOf(game) == house_fee(U256Mul(game.stake_amount, 2))

\* What every call but a withdrawal does to the house balance: nothing, or
\* the fee of the game that claim_victory finishes
HouseKeptOrFee(id, r) ==
    \/ r.st.house_balance = house_balance
    \/ /\ r.err = OK
       /\ ReadGame(St, id).status = "InProgress"
       /\ ReadGame(r.st, id).status = "Finished"
       /\ r.st.house_balance = U256Add(house_balance, FeeOf(ReadGame(St, id)))

HouseCalls ==
    /\ AllCreateCalls(LAMBDA r : r.st.house_balance = house_balance)
    /\ \A id \in GameIdArgs : AllGameCalls(id, LAMBDA r : HouseKeptOrFee(id, r))
    /\ \A c \in Accounts, token_ok \in BOOLEAN, amount \in WithdrawArgs(St) :
          LET r == withdraw_house_funds(St, c, amount, token_ok)
          IN  /\ ~U256Ge(house_balance, amount) => r.err # OK
              /\ (c = owner /\ ~U256Ge(house_balance, amount)) =>
                    r.err = "Insufficient house balance"
              /\ c # owner => r.err = "Only owner can withdraw"
              /\ r.err # OK => r.st.house_balance = house_balance
              /\ r.err = OK =>
                    U256Add(r.st.house_balance, amount) = house_balance

(***************************************************************************)
(* C27: over every interleaving of the calls on two games, house_balance   *)
(* starts at 0 and changes only in two ways: a successful claim_victory    *)
(* adds the fee of its game, each one exactly once, and a successful       *)
(* withdraw_house_funds by the owner subtracts its amount, which is at     *)
(* most the balance; a withdrawal of more than the balance fails, and      *)
(* every other call leaves the balance as it is.                           *)
(***************************************************************************)
C27_HouseBalanceLedger ==
    /\ [](HouseCalls /\ (last.op = "constructor" => house_balance = U256_ZERO))
    /\ [][/\ \A id \in DOMAIN games :
                (games[id].status # "Finished" /\ games'[id].status = "Finished") =>
                    /\ last'.op = "claim_victory" /\ last'.game_id = id
                    /\ house_balance' = U256Add(house_balance, FeeOf(games[id]))
          /\ (house_balance' # house_balance
              /\ ~\E id \in DOMAIN games :
                     games[id].status # "Finished" /\ games'[id].status = "Finished") =>
                    /\ last'.op = "withdraw_house_funds"
                    /\ last'.caller = owner
                    /\ games' = games
                    /\ U256Ge(house_balance, last'.args[1])
                    /\ U256Add(house_balance', last'.args[1]) = house_balance
                    /\ U256Add(held', last'.args[1]) = held]_vars

\* Both games are finished and the owner has withdrawn the fee of the first:
\* the fee of the second is left
C27_Witness ==
    /\ game_count = 2
    /\ \A id \in DOMAIN games : games[id].status = "Finished"
    /\ last.op = "withdraw_house_funds"
    /\ last.args[1] = FeeOf(games[1])
    /\ house_balance = FeeOf(games[2])
    /\ FeeOf(games[2]) # FeeOf(games[1])

\* The revealed flags of a game
FlagsOf(st, id) == {t \in st.revealed_cells : t[1] = id}

\* A call leaves game b as it is
LeavesGame(b, r) ==
    /\ ReadGame(r.st, b) = ReadGame(St, b)
    /\ FlagsOf(r.st, b) = FlagsOf(St, b)

(***************************************************************************)
(* C28: a call on game A, whether it succeeds or fails, leaves the record  *)
(* and the revealed flags of every other game B as they were, also when    *)
(* the same two players play both games; create_game and                   *)
(* withdraw_house_funds leave every existing game as it was.  What the     *)
(* games share is game_count and house_balance.                            *)
(***************************************************************************)
C28_GamesIndependent ==
    /\ [](\A b \in DOMAIN games :
             /\ \A a \in GameIdArgs \ {b} :
                   AllGameCalls(a, LAMBDA r : LeavesGame(b, r))
             /\ AllCreateCalls(LAMBDA r : LeavesGame(b, r)))
    /\ [][/\ \A b \in DOMAIN games :
                (games'[b] # games[b] \/ FlagsOf(St', b) # FlagsOf(St, b)) =>
                    /\ last'.game_id = b
                    /\ \A c \in (DOMAIN games) \ {b} :
                          games'[c] = games[c] /\ FlagsOf(St', c) = FlagsOf(St, c)
          /\ (last'.op \in {"create_game", "withdraw_house_funds"}) =>
                \A b \in DOMAIN games :
                    games'[b] = games[b] /\ FlagsOf(St', b) = FlagsOf(St, b)]_vars

\* The same two players in two games at different points of play
C28_Witness ==
    /\ game_count = 2
    /\ games[1].player1 = games[2].player1
    /\ games[1].player2 = games[2].player2
    /\ games[1].status = "InProgress" /\ games[1].has_pending_attack
    /\ games[1].player2_hits = 1
    /\ games[2].status = "InProgress"
    /\ games[2].player2_hits = 3
    /\ last.op = "reveal" /\ last.game_id = 2

\* The game a successful create_game stores
NewGame(r, caller, stake_amount) ==
    [DefaultGame EXCEPT !.id = r.ret, !.player1 = caller,
                        !.stake_amount = stake_amount, !.last_move_time = now]

CreateAllocates ==
    \A c \in Accounts, s \in StakeArgs \cup StakeValues, pays \in BOOLEAN :
        LET r == create_game(St, c, s, now, pays)
        IN  /\ r.err = OK <=> (U256Ge(s, MIN_STAKE) /\ pays)
            /\ r.err = OK =>
                  /\ r.ret = game_count + 1
                  /\ r.st.game_count = game_count + 1
                  /\ ReadGame(St, r.ret).id = 0
                  /\ ReadGame(r.st, r.ret) = NewGame(r, c, s)
                  /\ NewGame(r, c, s).status = "WaitingForOpponent"
                  /\ \A id \in DOMAIN games : ReadGame(r.st, id) = games[id]

IdsInUse ==
    /\ game_count = Len(games)
    /\ \A id \in DOMAIN games : games[id].id = id
    /\ \A id \in (GameIdArgs \cup {0, game_count + 1}) \ DOMAIN games :
          /\ ReadGame(St, id).id = 0
          /\ ReadGame(St, id) = DefaultGame
          /\ AllGameCalls(id, LAMBDA r : r.err \in NotFound /\ SameStorage(r.st))

(***************************************************************************)
(* C29: game_count starts at 0; every successful create_game, which is     *)
(* every one with stake >= MIN_STAKE whose payment goes through, returns   *)
(* game_count + 1, makes that the new game_count and stores under it a     *)
(* game with that id in WaitingForOpponent, with zero roots, zero          *)
(* current_turn, zero winner, zero hits and no pending attack, leaving     *)
(* every other game as it was; the id of a stored game never changes;      *)
(* get_game of an id never created returns a record with id 0, and every   *)
(* operation on such an id fails with NotFound.                            *)
(***************************************************************************)
C29_GameIds ==
    /\ [](/\ CreateAllocates
          /\ IdsInUse
          /\ (last.op = "constructor" => game_count = 0))
    /\ [][/\ game_count' \in {game_count, game_count + 1}
          /\ game_count' = game_count + 1 <=>
                (last'.op = "create_game" /\ last'.game_id = game_count + 1
                 /\ DOMAIN games' # DOMAIN games)
          /\ \A id \in DOMAIN games :
                id \in DOMAIN games' /\ games'[id].id = games[id].id]_vars

\* A second game created while the first is in play
C29_Witness ==
    /\ last.op = "create_game"
    /\ last.game_id = 2
    /\ game_count = 2
    /\ games[2].id = 2
    /\ games[2].status = "WaitingForOpponent"
    /\ games[1].status = "InProgress"

JoinChecked ==
    \A id \in GameIdArgs \cup {0}, c \in Accounts, pays \in BOOLEAN :
        LET game == ReadGame(St, id)
            r == join_game(St, c, id, now, pays)
        IN  /\ r.err = OK <=>
                  /\ id \in DOMAIN games
                  /\ game.status = "WaitingForOpponent"
                  /\ c # game.player1
                  /\ pays
            /\ r.err = OK =>
                  /\ ReadGame(r.st, id) =
                        [game EXCEPT !.player2 = c,
                                     !.status = "WaitingForCommitments",
                                     !.last_move_time = now]
                  /\ game.player2 = ZERO_ADDR
            /\ id \notin DOMAIN games => r.err \in NotFound
            /\ (id \in DOMAIN games /\ game.status # "WaitingForOpponent") =>
                  r.err = "Game not joinable"
            /\ (id \in DOMAIN games /\ game.status = "WaitingForOpponent"
                /\ c = game.player1) => r.err = "Cannot join own game"

TwoPlayers ==
    \A id \in DOMAIN games :
        IF games[id].status = "WaitingForOpponent"
           THEN games[id].player2 = ZERO_ADDR /\ games[id].player1 # ZERO_ADDR
           ELSE /\ games[id].player1 # ZERO_ADDR
                /\ games[id].player2 # ZERO_ADDR
                /\ games[id].player1 # games[id].player2

(***************************************************************************)
(* C30: join_game succeeds exactly on an existing game in                  *)
(* WaitingForOpponent for a caller who is not player1 and whose payment    *)
(* goes through, and then sets player2 to the caller and the status to     *)
(* WaitingForCommitments; on a missing game it fails with NotFound, on any *)
(* other status with 'Game not joinable', for player1 with 'Cannot join    *)
(* own game'.  So the players of every joined game are two distinct        *)
(* non-zero identities, and a game is joined at most once: player2 is      *)
(* written once, by that join, and player1 never.                          *)
(***************************************************************************)
C30_JoinOnce ==
    /\ [](JoinChecked /\ TwoPlayers)
    /\ [][/\ \A id \in DOMAIN games :
                /\ games'[id].player1 = games[id].player1
                /\ games'[id].player2 # games[id].player2 =>
                      /\ games[id].player2 = ZERO_ADDR
                      /\ games[id].status = "WaitingForOpponent"
                      /\ last'.op = "join_game" /\ last'.game_id = id
                      /\ games'[id].player2 = last'.caller
                /\ (last'.op = "join_game" /\ last'.game_id = id
                    /\ games'[id] # games[id]) =>
                      games[id].status = "WaitingForOpponent"]_vars

\* The second game joined while the first is in play
C30_Witness ==
    /\ last.op = "join_game"
    /\ last.game_id = 2
    /\ last.caller = 2
    /\ games[2].player2 = 2 /\ games[2].player1 = 1
    /\ games[2].status = "WaitingForCommitments"
    /\ games[1].status = "InProgress"

OwnerOnlyErrors ==
    {"Only owner can withdraw", "Only owner can transfer", "Only owner can upgrade"}

\* Every administrative call by caller on storage st is refused and leaves st
Refused(st, caller) ==
    /\ \A n \in OwnerArgs :
          LET r == transfer_ownership(st, caller, n)
          IN  r.err = "Only owner can transfer" /\ r.st = st
    /\ \A h \in ClassHashArgs, declared \in BOOLEAN :
          LET r == upgrade(st, caller, h, declared)
          IN  r.err = "Only owner can upgrade" /\ r.st = st
    /\ \A amount \in WithdrawArgs(st), token_ok \in BOOLEAN :
          LET r == withdraw_house_funds(st, caller, amount, token_ok)
          IN  r.err = "Only owner can withdraw" /\ r.st = st

\* What the owner's own calls do
OwnerServed ==
    /\ \A n \in OwnerArgs :
          LET r == transfer_ownership(St, owner, n)
          IN  IF n = ZERO_ADDR
                 THEN r.err = "Invalid new owner" /\ r.st = St
                 ELSE r.err = OK /\ r.st = [St EXCEPT !.owner = n]
    /\ \A h \in ClassHashArgs, declared \in BOOLEAN :
          LET r == upgrade(St, owner, h, declared)
          IN  IF declared
                 THEN r.err = OK /\ r.st = [St EXCEPT !.class_hash = h]
                 ELSE r.err # OK /\ r.st = St
    /\ \A amount \in WithdrawArgs(St), token_ok \in BOOLEAN :
          LET r == withdraw_house_funds(St, owner, amount, token_ok)
          IN  /\ r.err \notin OwnerOnlyErrors
              /\ r.err # OK => r.st = St
              /\ (token_ok /\ U256Ge(house_balance, amount)
                  /\ U256Ge(held, amount)) => r.err = OK

\* Owner, class and house funds move only in the owner's own calls
AdminSteps ==
    /\ owner' # owner =>
          /\ last'.op = "transfer_ownership" /\ last'.caller = owner
          /\ owner' = last'.args[1] /\ owner' # ZERO_ADDR
    /\ class_hash' # class_hash =>
          /\ last'.op = "upgrade" /\ last'.caller = owner
          /\ class_hash' = last'.args[1]
    /\ (last'.op = "withdraw_house_funds" /\ last' # last) => last'.caller = owner
    /\ U256Lt(house_balance', house_balance) =>
          last'.op = "withdraw_house_funds" /\ last'.caller = owner

(***************************************************************************)
(* C33, as stated: upgrade, withdraw_house_funds and transfer_ownership    *)
(* succeed only for the current owner and fail for every other caller      *)
(* without changing state; transfer_ownership rejects the zero address,    *)
(* and after every successful transfer the previous owner is refused.      *)
(***************************************************************************)
C33_PreviousOwnerRefused ==
    /\ [](/\ \A c \in Accounts \ {owner} : Refused(St, c)
          /\ OwnerServed
          /\ \A n \in OwnerArgs :
                LET r == transfer_ownership(St, owner, n)
                IN  r.err = OK => Refused(r.st, owner))
    /\ [][AdminSteps]_vars

(***************************************************************************)
(* C33, amended: upgrade, withdraw_house_funds and transfer_ownership      *)
(* succeed only for the current owner and fail for every other caller      *)
(* with the 'Only owner' message of the call and without changing state;   *)
(* transfer_ownership rejects the zero address; after a successful         *)
(* transfer to another account the previous owner is refused and the new   *)
(* owner is served, while a transfer of the owner to itself succeeds and   *)
(* leaves the owner in charge.                                             *)
(***************************************************************************)
C33_OwnerOnly ==
    /\ [](/\ \A c \in Accounts \ {owner} : Refused(St, c)
          /\ OwnerServed
          /\ \A n \in OwnerArgs :
                LET r == transfer_ownership(St, owner, n)
                IN  r.err = OK =>
                       /\ r.st.owner = n
                       /\ n # owner => Refused(r.st, owner)
                       /\ n = owner => r.st = St
                       /\ \A c \in Accounts \ {n} : Refused(r.st, c))
    /\ [][AdminSteps]_vars

\* Ownership has passed from the deployer to account 1 and on to account 2,
\* who has withdrawn the house's fee
C33_Witness ==
    /\ owner = 2
    /\ last.op = "withdraw_house_funds"
    /\ last.caller = 2
    /\ last.args[1] # U256_ZERO
    /\ house_balance = U256_ZERO
    /\ \E id \in DOMAIN games : games[id].status = "Finished"

\* The ships placed in the component
PlacedShips == {i \in 1..Len(pl.ships) : pl.ships[i].placed}

Neighbours(c, d) ==
    /\ c[1] - d[1] \in -1..1
    /\ c[2] - d[2] \in -1..1

\* The placed ships are inside the board, disjoint and not adjacent
FleetValid ==
    /\ \A i \in PlacedShips :
          \A c \in CellsOf(pl.ships[i]) : InBounds(c[1], c[2])
    /\ \A i, j \in PlacedShips :
          i # j => \A c \in CellsOf(pl.ships[i]), d \in CellsOf(pl.ships[j]) :
                      ~Neighbours(c, d)

(***************************************************************************)
(* C35: after any sequence of selections, toggles, clicks, removals and    *)
(* resets the placed ships lie inside the 10x10 board, do not overlap and  *)
(* are not adjacent, diagonals included; onPlacementComplete is called     *)
(* only with all six ships placed and a board of exactly 17 ship cells.    *)
(***************************************************************************)
C35_ValidFleetOf17 ==
    /\ FleetValid
    /\ pl.confirmed =>
          /\ Cardinality(PlacedShips) = Len(SHIP_TEMPLATES)
          /\ pl.board = generateBoard(pl.ships)
          /\ countShipCells(pl.board) = TOTAL_SHIP_CELLS

\* The cell values a board holds
CellValues == {0, 1}

(***************************************************************************)
(* C34: the client's verifier and the ledger's verifier are the same       *)
(* function: whatever root, leaf, sibling list and index is submitted,     *)
(* as generated or changed, verifyProof returns true exactly when          *)
(* verify_proof does; computeLeaf equals compute_leaf for every cell,      *)
(* value and salt, and coordsToIndex equals coords_to_index for all x, y   *)
(* in 0..9.                                                                *)
(***************************************************************************)
C34_SameVerifier ==
    /\ mk.phase = "verified" =>
          /\ mk.validTs = mk.valid
          /\ verifyProof(mk.root, mk.leaf, mk.proof, mk.leafIndex)
                = verify_proof(mk.root, mk.leaf, mk.proof, mk.leafIndex)
          /\ \A i \in 0..(PADDED_LEAVES - 1) :
                verifyProof(mk.root, mk.leaf, mk.proof, i)
                   = verify_proof(mk.root, mk.leaf, mk.proof, i)
    /\ mk.phase = "built" =>
          \A x, y \in 0..(BOARD_SIZE - 1) :
              /\ coordsToIndex(x, y) = coords_to_index(x, y)
              /\ \A v \in CellValues :
                    computeLeaf(x, y, v, mk.salt) = compute_leaf(x, y, v, mk.salt)

\* Both verifiers accept the proof of a right-hand leaf and reject it at
\* the index of its left-hand neighbour
C34_Witness ==
    /\ mk.phase = "verified"
    /\ mk.change = "none"
    /\ mk.leafIndex % 2 = 1
    /\ mk.valid /\ mk.validTs
    /\ ~verifyProof(mk.root, mk.leaf, mk.proof, mk.leafIndex - 1)
    /\ ~verify_proof(mk.root, mk.leaf, mk.proof, mk.leafIndex - 1)

\* A call that leaves player q recorded as the winner of game id
RecordsWinner(r, id, q) == r.err = OK /\ ReadGame(r.st, id).winner = q

(***************************************************************************)
(* C31: the first player to reach 7 hits wins.  Once a player of a game    *)
(* has HITS_TO_WIN hits and the other has not, no call of the other, at    *)
(* any time, records the other as winner; and when a reveal has just       *)
(* brought the attacker to HITS_TO_WIN while the revealer had them         *)
(* already, the attacker, who was second, cannot claim victory.            *)
(***************************************************************************)
C31_FirstToSevenWins ==
    \A id \in 1..game_count :
        LET game == ReadGame(St, id)
        IN  /\ \A p \in Players(game) :
                 LET q == OtherPlayer(game, p)
                 IN  (/\ game.status = "InProgress"
                      /\ Hits(game, p) >= HITS_TO_WIN
                      /\ Hits(game, q) < HITS_TO_WIN) =>
                         /\ \A token_ok \in BOOLEAN :
                               ~RecordsWinner(claim_victory(St, q, id, token_ok),
                                              id, q)
                         /\ \A ts \in TimeArgs, token_ok \in BOOLEAN :
                               ~RecordsWinner(
                                   claim_timeout(St, q, id, ts, token_ok), id, q)
            /\ (/\ last.op = "reveal"
                /\ last.game_id = id
                /\ last.args[3]
                /\ Hits(game, OtherPlayer(game, last.caller)) = HITS_TO_WIN
                /\ Hits(game, last.caller) >= HITS_TO_WIN) =>
                   \A token_ok \in BOOLEAN :
                       ~RecordsWinner(
                           claim_victory(St, OtherPlayer(game, last.caller), id,
                                         token_ok), id,
                           OtherPlayer(game, last.caller))

(***************************************************************************)
(* C32: players alternate attacking.  A successful attack is made by the   *)
(* player whose turn it is while no attack is pending, and leaves the      *)
(* attack pending on the other player; a successful reveal is made by      *)
(* that other player, clears the pending attack and gives the revealer     *)
(* the turn; no other step changes the turn or the pending attack of a     *)
(* game in progress.  So attacks and reveals follow each other one for     *)
(* one, and the revealer of an attack is the attacker of the next.         *)
(***************************************************************************)
C32_Alternation ==
    [][\A id \in DOMAIN games :
          LET game == games[id]
              after == games'[id]
              moved == after # game
          IN  game.status = "InProgress" =>
                 IF moved /\ last'.op = "attack" /\ last'.game_id = id
                    THEN /\ ~game.has_pending_attack
                         /\ last'.caller = game.current_turn
                         /\ after.has_pending_attack
                         /\ after.current_turn = OtherPlayer(game, last'.caller)
                         /\ after.current_turn # last'.caller
                         /\ (last.op = "reveal" /\ last.game_id = id) =>
                               last'.caller = last.caller
                    ELSE IF moved /\ last'.op = "reveal" /\ last'.game_id = id
                    THEN /\ game.has_pending_attack
                         /\ last'.caller = game.current_turn
                         /\ ~after.has_pending_attack
                         /\ after.current_turn = last'.caller
                         /\ (last.op = "attack" /\ last.game_id = id) =>
                               last'.caller = OtherPlayer(game, last.caller)
                    ELSE /\ after.has_pending_attack = game.has_pending_attack
                         /\ after.current_turn = game.current_turn]_vars

\* player1 attacks for the third time, after two reveals by each side
C32_Witness ==
    \E id \in DOMAIN games :
        /\ last.op = "attack"
        /\ last.game_id = id
        /\ last.caller = games[id].player1
        /\ games[id].has_pending_attack
        /\ games[id].current_turn = games[id].player2
        /\ games[id].player1_hits = 1
        /\ games[id].player2_hits = 2

\* The two calls that pay a game out
ClaimOps == {"claim_victory", "claim_timeout"}

(***************************************************************************)
(* C37: each game pays out at most once.  The winner of a game is zero     *)
(* while the game is not terminal and one of its two players afterwards;   *)
(* on a terminal game every claim_victory and claim_timeout, by anyone at  *)
(* any time, fails; the winner is written in the one step in which a       *)
(* claim succeeds on the game, that step makes the game terminal, and a    *)
(* terminal game never changes again.                                      *)
(***************************************************************************)
C37_PaidOnce ==
    /\ [](\A id \in DOMAIN games :
             LET game == games[id]
             IN  IF Terminal(game)
                    THEN /\ game.winner # ZERO_ADDR
                         /\ game.winner \in {game.player1, game.player2}
                         /\ \A c \in Accounts, token_ok \in BOOLEAN :
                               /\ claim_victory(St, c, id, token_ok).err # OK
                               /\ \A ts \in TimeArgs :
                                     claim_timeout(St, c, id, ts, token_ok).err
                                        # OK
                    ELSE game.winner = ZERO_ADDR)
    /\ [][\A id \in DOMAIN games :
             LET game == games[id]
                 after == games'[id]
                 claimed == /\ last'.op \in ClaimOps
                            /\ last'.game_id = id
                            /\ after # game
             IN  /\ Terminal(game) => after = game
                 /\ claimed <=> after.winner # game.winner
                 /\ claimed <=> (Terminal(after) /\ ~Terminal(game))
                 /\ claimed => /\ game.winner = ZERO_ADDR
                               /\ after.winner = last'.caller
                               /\ after.status = IF last'.op = "claim_victory"
                                                    THEN "Finished"
                                                    ELSE "Forfeited"]_vars

\* A game was won by its seven hits and a claim_timeout on it, a day later,
\* by the loser is refused
C37_Witness ==
    \E id \in DOMAIN games :
        /\ games[id].status = "Finished"
        /\ games[id].winner = last.caller
        /\ last.op = "claim_victory"
        /\ claim_timeout(St, OtherPlayer(games[id], games[id].winner), id,
                         now + DEFAULT_TIMEOUT, TRUE).err \in InvalidState

\* The stakes a game holds in escrow
Escrow(game) == U256Mul(game.stake_amount, Staked(game))

\* The calls that send tokens out of the contract
PayingOps == ClaimOps \cup {"withdraw_house_funds"}

(***************************************************************************)
(* C36: solvency.  After any sequence of create_game, join_game,           *)
(* claim_victory, claim_timeout and withdraw_house_funds on two games,     *)
(* the tokens the contract holds are the escrow of the games that have     *)
(* not ended plus house_balance.  A claim pays out of the escrow of its    *)
(* own game, less what it adds to house_balance, and leaves every other    *)
(* game as it was; a withdrawal takes its amount out of house_balance and  *)
(* leaves every game as it was; nothing else sends tokens out.             *)
(***************************************************************************)
C36_Solvency ==
    /\ [](/\ held = U256Add(EscrowUpTo(game_count), house_balance)
          /\ U256Ge(held, EscrowUpTo(game_count))
          /\ U256Ge(held, house_balance))
    /\ [][/\ \A id \in DOMAIN games :
                (~Terminal(games[id]) /\ Terminal(games'[id])) =>
                    /\ last'.op \in ClaimOps /\ last'.game_id = id
                    /\ U256Ge(Escrow(games[id]), U256Sub(held, held'))
                    /\ U256Add(U256Add(held', Escrow(games[id])), house_balance)
                          = U256Add(held, house_balance')
                    /\ \A j \in (DOMAIN games) \ {id} : games'[j] = games[j]
          /\ (games' # games /\ last'.op = "withdraw_house_funds") => FALSE
          /\ (last'.op = "withdraw_house_funds" /\ held' # held) =>
                    /\ games' = games
                    /\ U256Ge(house_balance, last'.args[1])
                    /\ U256Add(held', last'.args[1]) = held
                    /\ U256Add(house_balance', last'.args[1]) = house_balance
          /\ U256Lt(held', held) => last'.op \in PayingOps]_vars

\* The first game was won, its fee withdrawn, and the second, never
\* committed to, is forfeited: the contract holds nothing
C36_Witness ==
    /\ game_count = 2
    /\ games[1].status = "Finished"
    /\ games[2].status = "Forfeited"
    /\ last.op = "claim_timeout"
    /\ last.game_id = 2
    /\ house_balance = U256_ZERO
    /\ held = U256_ZERO

\* The statuses of a joined game that has not ended
JoinedStatuses == {"WaitingForCommitments", "InProgress"}

\* Times past the deadline of a game: one second and one day past it
PastDeadline(game) ==
    {game.last_move_time + DEFAULT_TIMEOUT + 1,
     game.last_move_time + DEFAULT_TIMEOUT + DEFAULT_TIMEOUT}

(***************************************************************************)
(* C38: no joined game can be stuck forever.  In every reachable state,    *)
(* for every game in WaitingForCommitments or InProgress, whoever has or   *)
(* has not committed and whether or not an attack is pending, at any time  *)
(* past last_move_time + 86400 with no move made in between at least one   *)
(* of the two players has a claim_timeout that succeeds and leaves the     *)
(* game Forfeited with that player as winner.                              *)
(***************************************************************************)
C38_NeverStuck ==
    \A id \in DOMAIN games :
        LET game == games[id]
        IN  game.status \in JoinedStatuses =>
                \A ts \in PastDeadline(game) :
                    \E c \in {game.player1, game.player2} :
                        LET r == claim_timeout(St, c, id, ts, TRUE)
                        IN  /\ r.err = OK
                            /\ ReadGame(r.st, id).status = "Forfeited"
                            /\ ReadGame(r.st, id).winner = c

\* A game left with an attack pending and one left before any commitment,
\* a day on: the attacker of the one and either player of the other can
\* claim the timeout
C38_Witness ==
    /\ game_count = 2
    /\ games[1].status = "InProgress"
    /\ games[1].has_pending_attack
    /\ games[2].status = "WaitingForCommitments"
    /\ games[2].player1_root = FELT_ZERO
    /\ games[2].player2_root = FELT_ZERO
    /\ now >= games[1].last_move_time + DEFAULT_TIMEOUT
    /\ now >= games[2].last_move_time + DEFAULT_TIMEOUT
    /\ claim_timeout(St, OtherPlayer(games[1], games[1].current_turn), 1, now,
                     TRUE).err = OK
    /\ \A c \in {games[2].player1, games[2].player2} :
          claim_timeout(St, c, 2, now, TRUE).err = OK

\* Every call on game id but join_game, at the times ts, fails with an
\* error of the state and leaves the storage as it is
OnlyJoinServed(id, times) ==
    LET Refuse(r) == r.err \in InvalidState /\ r.st = St
    IN  /\ \A c \in Accounts, root \in RootArgs, ts \in times :
              Refuse(commit_board(St, c, id, root, ts))
        /\ \A c \in Accounts, cell \in CellArgs, ts \in times :
              Refuse(attack(St, c, id, cell[1], cell[2], ts))
        /\ \A c \in Accounts, cell \in CellArgs, is_hit \in BOOLEAN, ts \in times :
              \A sp \in ProofArgs(0, 0) :
                  Refuse(reveal(St, c, id, cell[1], cell[2], is_hit, sp[1],
                                sp[2], ts))
        /\ \A c \in Accounts, token_ok \in BOOLEAN :
              Refuse(claim_victory(St, c, id, token_ok))
        /\ \A c \in Accounts, token_ok \in BOOLEAN, ts \in times :
              Refuse(claim_timeout(St, c, id, ts, token_ok))

Shown(id, player) ==
    {t \in revealed_cells : t[1] = id /\ t[2] = player}

\* The cells of a board
BOARD_CELLS == BOARD_SIZE * BOARD_SIZE

(***************************************************************************)
(* C40: hit counters stay within the board and within u8.  In every        *)
(* reachable state the hit counter of a player is at most the number of    *)
(* cells the opponent has revealed, all of them cells of the board, hence  *)
(* at most 100 and below the largest u8, and no reveal fails on the        *)
(* overflow of the counter; this also where a player has passed            *)
(* HITS_TO_WIN and plays on without claiming.                              *)
(***************************************************************************)
C40_HitsWithinBoard ==
    \A id \in DOMAIN games :
        LET game == games[id]
        IN  /\ \A p \in {game.player1, game.player2} :
                 LET shown == Shown(id, OtherPlayer(game, p))
                 IN  /\ Hits(game, p) <= Cardinality(shown)
                     /\ \A t \in shown : t[3] \in 0..(BOARD_CELLS - 1)
                     /\ Cardinality(shown) <= BOARD_CELLS
                     /\ Hits(game, p) <= BOARD_CELLS
                     /\ Hits(game, p) < U8_MAX
            /\ \A c \in Accounts, cell \in RevealCells(St, id), is_hit \in BOOLEAN :
                  \A sp \in ProofArgs(cell[1], cell[2]) :
                      reveal(St, c, id, cell[1], cell[2], is_hit, sp[1], sp[2],
                             now).err # "u8_add Overflow"

\* A player who has reached HITS_TO_WIN plays on without claiming: the
\* eighth cell attacked is revealed, a miss
C40_Witness ==
    \E id \in DOMAIN games :
        /\ games[id].status = "InProgress"
        /\ last.op = "reveal"
        /\ ~last.args[3]
        /\ Hits(games[id], OtherPlayer(games[id], last.caller)) = HITS_TO_WIN
        /\ Cardinality(Shown(id, last.caller)) = HITS_TO_WIN + 1

====
